---- MODULE Spec2Model ----
(***************************************************************************)
(* Banana-split secret sharing: field tables over GF(2^n), the byte-wise   *)
(* Shamir splitter (src/src/encrypt.rs), the share parser, the combiner    *)
(* and the ShareSet life cycle (src/src/shares.rs).                        *)
(*                                                                         *)
(* Conventions.  A Rust Option is a sequence of length 0 (None) or 1       *)
(* (Some).  A Rust Vec indexed from 0 is a TLA+ sequence indexed from 1,   *)
(* so v[i] in the source is v[i + 1] here (operator At).                   *)
(***************************************************************************)
EXTENDS Integers, Sequences, FiniteSets, TLC

(***************************************************************************)
(* Bounds of the model.                                                    *)
(***************************************************************************)
\* largest field width n whose tables are built (BIT_RANGE goes up to 20)
MaxBits == 15
\* largest total number of shares asked from the splitter
MaxShares == 3
\* largest number of fields of a scanned payload that differ from what the
\* splitter wrote
MaxMutations == 1
\* largest number of bytes in the decoded body of a payload given to Share::new
MaxBody == 4
\* largest number of points given to lagrange, and of coefficients given to
\* horner
MaxPoints == 3
\* largest length of a ciphertext given to share() on its own
MaxCipher == 14

(***************************************************************************)
(* Program constants.                                                      *)
(***************************************************************************)
\* BIT_RANGE.start
MIN_BITS == 3
\* BIT_RANGE.end
MAX_BITS == 20
\* let bits = 8u8 in share()
SplitBits == 8
\* let pad_length = 7 in share()
pad_length == 7
\* [0; 24] nonce buffer of encrypt()
NonceLen == 24
\* length of the Poly1305 tag that cipher.encrypt() writes before the
\* encrypted bytes
TagLen == 16

(***************************************************************************)
(* Integer helpers: u32 bit operations.                                    *)
(***************************************************************************)
RECURSIVE Pow2(_)
Pow2(n) == IF n = 0 THEN 1 ELSE 2 * Pow2(n - 1)

RECURSIVE Xor(_, _)
Xor(a, b) ==
    IF a = 0 THEN b
    ELSE IF b = 0 THEN a
    ELSE (((a % 2) + (b % 2)) % 2) + (2 * Xor(a \div 2, b \div 2))

\* Body(v) with v evaluated once, and a vector given by a rule evaluated
\* entry by entry once (TLC otherwise evaluates a LET name or an argument
\* again at each use).
Bind(v, Body(_)) == CHOOSE r \in {Body(s) : s \in {v}} : TRUE
Vec(f) == f \o << >>

None == << >>
Some(v) == << v >>
IsNone(o) == Len(o) = 0
IsSome(o) == Len(o) = 1
Unwrap(o) == o[1]

(***************************************************************************)
(* Field tables.                                                           *)
(***************************************************************************)
PRIMITIVE_POLYNOMIALS ==
    << 3, 3, 5, 3, 3, 29, 17, 9, 5, 83, 27, 43, 3, 45, 9, 39, 39, 9 >>

primitive_polynomial(n) == PRIMITIVE_POLYNOMIALS[(n - 3) + 1]

\* vec![v; len]
Repeat(v, len) == Vec([k \in 1 .. len |-> v])

\* One pass of the loop `for i in 0..size` of generate_logs_and_exps on the
\* loop state st = [x, logs, exps]; the vectors logs and exps are sequences
\* here, so logs[x] of the source is st.logs[x + 1].
GenStep(st, i, size, poly) ==
    LET x    == st.x
        x1   == x * 2
        x2   == IF x1 >= size THEN (Xor(x1, poly) % size) ELSE x1
    IN  [x    |-> x2,
         logs |-> IF IsNone(st.logs[x + 1])
                  THEN [st.logs EXCEPT ![x + 1] = Some(i)]
                  ELSE st.logs,
         exps |-> Append(st.exps, x)]

\* The same pass with the write to logs unguarded: the last occurrence of x
\* overwrites the first.
GenStepUnguarded(st, i, size, poly) ==
    LET x    == st.x
        x1   == x * 2
        x2   == IF x1 >= size THEN (Xor(x1, poly) % size) ELSE x1
    IN  [x    |-> x2,
         logs |-> [st.logs EXCEPT ![x + 1] = Some(i)],
         exps |-> Append(st.exps, x)]

\* The passes lo .. hi of the loop, in order: first the passes up to the
\* middle, then the others from the state those leave.
RECURSIVE GenLoop(_, _, _, _, _)
GenLoop(st, lo, hi, size, poly) ==
    IF lo > hi THEN st
    ELSE IF lo = hi THEN GenStep(st, lo, size, poly)
    ELSE Bind(GenLoop(st, lo, (lo + hi) \div 2, size, poly),
              LAMBDA left : GenLoop(left, ((lo + hi) \div 2) + 1, hi, size, poly))

RECURSIVE GenLoopUnguarded(_, _, _, _, _)
GenLoopUnguarded(st, lo, hi, size, poly) ==
    IF lo > hi THEN st
    ELSE IF lo = hi THEN GenStepUnguarded(st, lo, size, poly)
    ELSE Bind(GenLoopUnguarded(st, lo, (lo + hi) \div 2, size, poly),
              LAMBDA left : GenLoopUnguarded(left, ((lo + hi) \div 2) + 1, hi,
                                             size, poly))

generate_logs_and_exps_unguarded(n) ==
    LET size == Pow2(n)
        st0  == [x |-> 1, logs |-> Repeat(None, size), exps |-> << >>]
        end  == GenLoopUnguarded(st0, 0, size - 1, size, primitive_polynomial(n))
    IN  [logs |-> end.logs, exps |-> end.exps]

\* (logs, exps) of GF(2^n), each a vector of 2^n entries: logs[x] of the
\* source is .logs[x + 1], exps[i] of the source is .exps[i + 1].
generate_logs_and_exps(n) ==
    LET size == Pow2(n)
        st0  == [x |-> 1, logs |-> Repeat(None, size), exps |-> << >>]
        end  == GenLoop(st0, 0, size - 1, size, primitive_polynomial(n))
    IN  [logs |-> end.logs, exps |-> end.exps]

\* The tables of the widths up to MaxBits, built once.
Tables == [n \in MIN_BITS .. MaxBits |-> generate_logs_and_exps(n)]

\* let (logs, exps) = generate_logs_and_exps(n), as called by get_shares and
\* by combine
LogsAndExps(n) == IF n \in DOMAIN Tables THEN Tables[n] ELSE generate_logs_and_exps(n)

\* slice.get(i) on a vector: Some(element) for 0 <= i < len, None outside
Get(vec, i) == IF i >= 0 /\ i < Len(vec) THEN Some(vec[i + 1]) ELSE None
\* vec[i]
At(vec, i) == vec[i + 1]

(***************************************************************************)
(* Results.  Ok(v) and Err(e, a) are the two variants of a Rust Result;    *)
(* Panic(m) stands for a call that does not return (a failed expect, an    *)
(* arithmetic overflow).                                                   *)
(***************************************************************************)
Ok(v) == [kind |-> "Ok", val |-> v]
Err(e, a) == [kind |-> "Err", err |-> e, arg |-> a]
Panic(m) == [kind |-> "Panic", msg |-> m]
IsOk(r) == r.kind = "Ok"

(***************************************************************************)
(* Horner evaluation (splitter).                                           *)
(***************************************************************************)
\* The same loop without the test fx != 0.
RECURSIVE HornerLoopUnguarded(_, _, _, _, _, _, _)
HornerLoopUnguarded(k, fx, logx, coeffs, logs, exps, max_shares) ==
    IF k = 0 THEN Ok(fx)
    ELSE IF IsNone(At(logs, fx))
         THEN Panic("log(x) is not defined")
         ELSE LET exp == (logx + Unwrap(At(logs, fx))) % max_shares
              IN  HornerLoopUnguarded(k - 1, Xor(At(exps, exp), coeffs[k]), logx,
                                      coeffs, logs, exps, max_shares)

\* The same loop with the sum of logarithms reduced modulo 2^n, not 2^n - 1.
RECURSIVE HornerLoopModSize(_, _, _, _, _, _, _)
HornerLoopModSize(k, fx, logx, coeffs, logs, exps, max_shares) ==
    IF k = 0 THEN Ok(fx)
    ELSE IF fx # 0
         THEN IF IsNone(At(logs, fx))
              THEN Panic("log(x) is not defined")
              ELSE LET exp == (logx + Unwrap(At(logs, fx))) % (max_shares + 1)
                   IN  HornerLoopModSize(k - 1, Xor(At(exps, exp), coeffs[k]),
                                         logx, coeffs, logs, exps, max_shares)
         ELSE HornerLoopModSize(k - 1, coeffs[k], logx, coeffs, logs, exps,
                                max_shares)

\* The loop `for i in coeffs.iter().rev()` from coefficient k down to the
\* first one; fx is the accumulator.  k counts the coefficients left.
RECURSIVE HornerLoop(_, _, _, _, _, _, _)
HornerLoop(k, fx, logx, coeffs, logs, exps, max_shares) ==
    IF k = 0 THEN Ok(fx)
    ELSE IF fx # 0
         THEN IF IsNone(At(logs, fx))
              THEN Panic("log(x) is not defined")
              ELSE LET exp == (logx + Unwrap(At(logs, fx))) % max_shares
                   IN  HornerLoop(k - 1, Xor(At(exps, exp), coeffs[k]), logx,
                                  coeffs, logs, exps, max_shares)
         ELSE HornerLoop(k - 1, coeffs[k], logx, coeffs, logs, exps, max_shares)

\* fn horner(x: u8, coeffs: &[u8], logs, exps, n: u32) -> u8
horner(x, coeffs, logs, exps, n) ==
    IF IsNone(At(logs, x))
    THEN Panic("logs[x] is never zero")
    ELSE LET r == HornerLoop(Len(coeffs), 0, Unwrap(At(logs, x)), coeffs,
                             logs, exps, Pow2(n) - 1)
         IN  IF IsOk(r) /\ r.val > 255
             THEN Panic("failed to convert result to u8")
             ELSE r

(***************************************************************************)
(* Lagrange interpolation (combiner).  x and y are vectors of the same     *)
(* length; x[j] of the source is x[j + 1] here.                            *)
(***************************************************************************)
\* The inner loop with p1 subtracted and p2 added.
RECURSIVE LagrangeInnerSwapped(_, _, _, _, _, _)
LagrangeInnerSwapped(i, j, product, x, logs, size) ==
    IF j = Len(x) THEN Ok(product)
    ELSE IF i = j THEN LagrangeInnerSwapped(i, j + 1, product, x, logs, size)
    ELSE LET g1 == Get(logs, At(x, j))
             g2 == Get(logs, Xor(At(x, i), At(x, j)))
         IN  IF IsNone(g1) THEN Err("LogOutOfRange", At(x, j))
             ELSE IF IsNone(Unwrap(g1)) THEN Panic("x[j] is never zero")
             ELSE IF IsNone(g2)
                  THEN Err("LogOutOfRange", Xor(At(x, i), At(x, j)))
             ELSE IF IsNone(Unwrap(g2))
                  THEN Panic("x[i] and x[j] are never equal")
             ELSE LET p1 == Unwrap(Unwrap(g1))
                      p2 == Unwrap(Unwrap(g2))
                  IN  LagrangeInnerSwapped(i, j + 1,
                          (((size - 1) + product + p2) - p1) % (size - 1),
                          x, logs, size)

\* The inner loop `for j in 0..len` for a fixed i, from pass j on.  The
\* subtraction is a u32 subtraction: below zero it panics (overflow checks).
RECURSIVE LagrangeInner(_, _, _, _, _, _)
LagrangeInner(i, j, product, x, logs, size) ==
    IF j = Len(x) THEN Ok(product)
    ELSE IF i = j THEN LagrangeInner(i, j + 1, product, x, logs, size)
    ELSE LET g1 == Get(logs, At(x, j))
             g2 == Get(logs, Xor(At(x, i), At(x, j)))
         IN  IF IsNone(g1) THEN Err("LogOutOfRange", At(x, j))
             ELSE IF IsNone(Unwrap(g1)) THEN Panic("x[j] is never zero")
             ELSE IF IsNone(g2)
                  THEN Err("LogOutOfRange", Xor(At(x, i), At(x, j)))
             ELSE IF IsNone(Unwrap(g2))
                  THEN Panic("x[i] and x[j] are never equal")
             ELSE LET p1 == Unwrap(Unwrap(g1))
                      p2 == Unwrap(Unwrap(g2))
                  IN  IF (size - 1) + product + p1 < p2
                      THEN Panic("attempt to subtract with overflow")
                      ELSE LagrangeInner(i, j + 1,
                               (((size - 1) + product + p1) - p2) % (size - 1),
                               x, logs, size)

\* The outer loop `for i in 0..len`, from pass i on; sum is the accumulator.
RECURSIVE LagrangeOuter(_, _, _, _, _, _, _)
LagrangeOuter(i, sum, x, y, logs, exps, size) ==
    IF i = Len(x) THEN Ok(sum)
    ELSE LET g == Get(logs, At(y, i))
         IN  IF IsNone(g) THEN Err("LogOutOfRange", At(y, i))
             ELSE IF IsNone(Unwrap(g))
                  THEN LagrangeOuter(i + 1, sum, x, y, logs, exps, size)
             ELSE LET r == LagrangeInner(i, 0, Unwrap(Unwrap(g)), x, logs, size)
                  IN  IF ~IsOk(r) THEN r
                      ELSE IF r.val >= Len(exps)
                           THEN Panic("index out of bounds")
                      ELSE LagrangeOuter(i + 1, Xor(sum, At(exps, r.val)),
                                         x, y, logs, exps, size)

\* fn lagrange(x, y, logs, exps, n) -> Result<u32, Error>
lagrange(x, y, logs, exps, n) == LagrangeOuter(0, 0, x, y, logs, exps, Pow2(n))

(***************************************************************************)
(* Text.  A string is the sequence of the code points of its characters.   *)
(* BASE64 is base64::engine::general_purpose::STANDARD: the alphabet       *)
(* A-Z a-z 0-9 + /, '=' padding written by encode and required, in         *)
(* canonical form, by decode.                                              *)
(***************************************************************************)
\* value of a symbol of the standard alphabet, -1 for any other character
B64Value(c) ==
    IF c \in 65 .. 90 THEN c - 65
    ELSE IF c \in 97 .. 122 THEN c - 71
    ELSE IF c \in 48 .. 57 THEN c + 4
    ELSE IF c = 43 THEN 62
    ELSE IF c = 47 THEN 63
    ELSE -1

\* symbol of a 6-bit value
B64Char(v) ==
    IF v < 26 THEN v + 65
    ELSE IF v < 52 THEN v + 71
    ELSE IF v < 62 THEN v - 4
    ELSE IF v = 62 THEN 43
    ELSE 47

\* bytes[i], 0 past the end
ByteAt(bytes, i) == IF i <= Len(bytes) THEN bytes[i] ELSE 0

\* BASE64.encode(bytes): four symbols for every three bytes, the last group
\* filled with '=' (61)
BASE64_encode(bytes) ==
    Vec([j \in 1 .. 4 * ((Len(bytes) + 2) \div 3) |->
         LET g  == (j - 1) \div 4
             b0 == ByteAt(bytes, (3 * g) + 1)
             b1 == ByteAt(bytes, (3 * g) + 2)
             b2 == ByteAt(bytes, (3 * g) + 3)
             r  == (j - 1) % 4
         IN  IF r = 0 THEN B64Char(b0 \div 4)
             ELSE IF r = 1 THEN B64Char(((b0 % 4) * 16) + (b1 \div 16))
             ELSE IF r = 2
                  THEN IF (3 * g) + 2 > Len(bytes) THEN 61
                       ELSE B64Char(((b1 % 16) * 4) + (b2 \div 64))
             ELSE IF (3 * g) + 3 > Len(bytes) THEN 61
                  ELSE B64Char(b2 % 64)])

\* number of '=' that end the text, at most two
B64Pad(text) ==
    IF Len(text) >= 1 /\ text[Len(text)] = 61
    THEN IF Len(text) >= 2 /\ text[Len(text) - 1] = 61 THEN 2 ELSE 1
    ELSE 0

\* BASE64.decode(text): an error unless the length is a multiple of four,
\* every character before the padding is a symbol and the bits of the last
\* symbol that belong to no byte are zero
BASE64_decode(text) ==
    LET len == Len(text)
        pad == B64Pad(text)
        sym == [k \in 1 .. len - pad |-> B64Value(text[k])]
    IN  IF len % 4 # 0 THEN Err("Base64", 0)
        ELSE IF \E k \in 1 .. len - pad : sym[k] < 0 THEN Err("Base64", 0)
        ELSE IF pad = 1 /\ sym[len - 1] % 4 # 0 THEN Err("Base64", 0)
        ELSE IF pad = 2 /\ sym[len - 2] % 16 # 0 THEN Err("Base64", 0)
        ELSE Ok(Vec([i \in 1 .. (3 * (len \div 4)) - pad |->
                     LET g == (i - 1) \div 3
                         r == (i - 1) % 3
                     IN  IF r = 0
                         THEN (sym[(4 * g) + 1] * 4) + (sym[(4 * g) + 2] \div 16)
                         ELSE IF r = 1
                         THEN ((sym[(4 * g) + 2] % 16) * 16) + (sym[(4 * g) + 3] \div 4)
                         ELSE ((sym[(4 * g) + 3] % 4) * 64) + sym[(4 * g) + 4]]))

\* value of a hexadecimal digit of either case, -1 for any other character
HexValue(c) ==
    IF c \in 48 .. 57 THEN c - 48
    ELSE IF c \in 97 .. 102 THEN c - 87
    ELSE IF c \in 65 .. 70 THEN c - 55
    ELSE -1

\* lower-case hexadecimal digit
HexChar(v) == IF v < 10 THEN v + 48 ELSE v + 87

\* hex::encode(bytes)
hex_encode(bytes) ==
    Vec([j \in 1 .. 2 * Len(bytes) |->
         IF j % 2 = 1 THEN HexChar(bytes[(j + 1) \div 2] \div 16)
         ELSE HexChar(bytes[j \div 2] % 16)])

\* hex::decode(text): an error on an odd length or a character that is no
\* hexadecimal digit
hex_decode(text) ==
    IF Len(text) % 2 # 0 THEN Err("Hex", 0)
    ELSE IF \E k \in 1 .. Len(text) : HexValue(text[k]) < 0 THEN Err("Hex", 0)
    ELSE Ok(Vec([i \in 1 .. Len(text) \div 2 |->
                 (HexValue(text[(2 * i) - 1]) * 16) + HexValue(text[2 * i])]))

\* std::char::from_digit(m, 36): '0'..'9', then 'a'..'z'
from_digit(m) == IF m < 10 THEN m + 48 ELSE m + 87

\* fn format_radix(x, radix): the digits of x, most significant first.  The
\* loop pushes the digit of x % radix and divides until x = 0, then the
\* vector is reversed.
RECURSIVE format_radix(_, _)
format_radix(x, radix) ==
    IF x \div radix = 0 THEN << from_digit(x % radix) >>
    ELSE Append(format_radix(x \div radix, radix), from_digit(x % radix))

\* char::to_digit(36): Some(value) for '0'..'9' and the letters of either
\* case, else None
to_digit(c, radix) ==
    LET v == IF c \in 48 .. 57 THEN c - 48
             ELSE IF c \in 97 .. 122 THEN c - 87
             ELSE IF c \in 65 .. 90 THEN c - 55
             ELSE radix
    IN  IF v < radix THEN Some(v) ELSE None

\* fn construct_public_share_string(bits, id, data): the radix-36 digits of
\* bits followed by the base64 text of [id] ++ data
construct_public_share_string(bits, id, data) ==
    format_radix(bits, 36) \o BASE64_encode(<< id >> \o data)

(***************************************************************************)
(* Share::new.  A payload is the parsed JSON object [v, t, r, n, d]:       *)
(* v is "1", "null" (key absent) or another number; r is a natural number  *)
(* or -1 for a value that is no unsigned integer; n and d are strings.     *)
(***************************************************************************)
\* max.to_be_bytes().iter().skip_while(|x| x == 0).count()
IdLength(max) ==
    IF max < 256 THEN 1
    ELSE IF max < 65536 THEN 2
    ELSE IF max < 16777216 THEN 3
    ELSE 4

\* u32::from_le_bytes of the identifier piece right-padded with zero bytes
RECURSIVE FromLeBytes(_)
FromLeBytes(bytes) ==
    IF Len(bytes) = 0 THEN 0
    ELSE bytes[1] + (256 * FromLeBytes(Tail(bytes)))

\* u32::from_be_bytes of the identifier piece left-padded with zero bytes
RECURSIVE FromBeBytes(_)
FromBeBytes(bytes) ==
    IF Len(bytes) = 0 THEN 0
    ELSE (256 * FromBeBytes(SubSeq(bytes, 1, Len(bytes) - 1))) + bytes[Len(bytes)]

\* The tail of Share::new: the body cut into identifier piece and content.
ShareNewBody(version, payload, bits, share_body) ==
    LET max       == Pow2(bits) - 1
        id_length == IdLength(max)
    IN  IF Len(share_body) < id_length THEN Err("ShareTooShort", 0)
        ELSE Ok([version         |-> version,
                 title           |-> payload.t,
                 required_shards |-> payload.r,
                 nonce           |-> payload.n,
                 bits            |-> bits,
                 id              |-> FromBeBytes(SubSeq(share_body, 1, id_length)),
                 content         |-> SubSeq(share_body, id_length + 1,
                                            Len(share_body))])

\* pub fn new(share_vec: Vec<u8>) -> Result<Share, Error>, from the parsed
\* JSON on.
Share_new(payload) ==
    IF payload.v \notin {"1", "null"} THEN Err("VersionNotSupported", 0)
    ELSE IF payload.r < 0 THEN Err("RequiredShardsNotSupported", 0)
    ELSE IF Len(payload.d) = 0 THEN Err("EmptyShare", 0)
    ELSE
      LET version == IF payload.v = "1" THEN "V1" ELSE "Undefined"
          digit   == to_digit(payload.d[1], 36)
      IN  IF IsNone(digit) THEN Err("ParseBit", payload.d[1])
          ELSE IF Unwrap(digit) < MIN_BITS \/ Unwrap(digit) > MAX_BITS
               THEN Err("BitsOutOfRange", Unwrap(digit))
          ELSE
            LET body == IF version = "Undefined"
                        THEN hex_decode(Tail(payload.d))
                        ELSE BASE64_decode(Tail(payload.d))
            IN  IF ~IsOk(body)
                THEN Err(IF version = "Undefined" THEN "UndefinedBodyNotHex"
                         ELSE "BodyNotBase64", 0)
                ELSE ShareNewBody(version, payload, Unwrap(digit), body.val)

(***************************************************************************)
(* Splitter.  The random generator is one of the streams of bytes          *)
(* Rng(seed, 0), Rng(seed, 1), ...; fill_bytes takes the next bytes of it. *)
(***************************************************************************)
Rng(seed, k) == (seed + (83 * k)) % 256

\* fn get_shares(secret, num_shares, threshold, bits), with the threshold - 1
\* bytes the generator gives it as coeffs
get_shares(secret, num_shares, threshold, bits, coeffs) ==
    LET poly == << secret >> \o coeffs
        t    == LogsAndExps(bits)
    IN  [x \in 1 .. num_shares |-> horner(x % 256, poly, t.logs, t.exps, bits)]

\* The shares of the padded input to_split: splits[p][i] is share i + 1 of
\* byte p, and the data of share i + 1 is the column i of splits.
ShareStrings(to_split, num_shares, required_shards, bits, seed) ==
    LET splits == [p \in 1 .. Len(to_split) |->
                     get_shares(to_split[p], num_shares, required_shards, bits,
                                [j \in 1 .. required_shards - 1 |->
                                   Rng(seed, ((p - 1) * (required_shards - 1)) + (j - 1))])]
        bad    == {p \in 1 .. Len(to_split) :
                     \E i \in 1 .. num_shares : ~IsOk(splits[p][i])}
    IN  IF bad # {}
        THEN LET p == CHOOSE q \in bad : \A q2 \in bad : q <= q2
                 i == CHOOSE k \in 1 .. num_shares :
                        /\ ~IsOk(splits[p][k])
                        /\ \A k2 \in 1 .. k - 1 : IsOk(splits[p][k2])
             IN  splits[p][i]
        ELSE Ok([idx \in 1 .. num_shares |->
                   construct_public_share_string(bits, ((idx - 1) % 256) + 1,
                       [p \in 1 .. Len(to_split) |-> splits[p][idx].val])])

\* left_pad that rounds up to the next multiple only when needed
LeftPadToMultiple(len) == (pad_length - ((len + 1) % pad_length)) % pad_length

\* left_pad of share()
LeftPad(len) == pad_length - ((len + 1) % pad_length)

\* vec![0u8; left_pad] ++ [1u8] ++ secret
ToSplit(secret) == Repeat(0, LeftPad(Len(secret))) \o << 1 >> \o secret

\* fn share(secret: &[u8], num_shares, required_shards) -> Result<Vec<String>, Error>
share(secret, num_shares, required_shards, seed) ==
    IF num_shares < 2 THEN Err("TooFewShares", 0)
    ELSE IF num_shares < required_shards THEN Err("TooFewShares", 0)
    ELSE IF num_shares > Pow2(SplitBits) - 1
         THEN Err("TooManyShares", Pow2(SplitBits) - 1)
    ELSE IF required_shards = 0 THEN Panic("threshold - 1 overflows")
    ELSE ShareStrings(ToSplit(secret), num_shares, required_shards, SplitBits, seed)

(***************************************************************************)
(* Crypto envelope.  SHA-512 and scrypt are library code: hash_string and  *)
(* scrypt hold the values the libraries compute on the titles and the      *)
(* passphrases of the model and of tests.rs.  XSalsa20Poly1305 is computed *)
(* in full: HSalsa20 of the key and the first 16 bytes of the nonce gives  *)
(* a sub-key, Salsa20 under the sub-key gives the key stream, the first 32 *)
(* bytes of the stream are the one-time key of Poly1305, the plaintext is  *)
(* XORed with the stream from byte 33 on, and the encrypted bytes are      *)
(* preceded by their Poly1305 tag of TagLen bytes.                         *)
(***************************************************************************)
\* Sha512::digest(title) of hash_string, as the library computes it, on the
\* titles of the model and the titles of tests.rs
Sha512Of ==
    ("T1" :>
         << 115, 69, 132, 244, 35, 47, 128, 244, 3, 126, 206, 207, 100, 143, 178, 193,
            155, 58, 170, 10, 70, 96, 71, 223, 131, 61, 176, 38, 52, 246, 149, 146,
            141, 205, 177, 113, 197, 6, 38, 47, 50, 186, 60, 140, 198, 170, 229, 234,
            215, 29, 154, 177, 109, 98, 15, 76, 214, 158, 202, 78, 185, 69, 234, 184 >>)
    @@ ("T2" :>
         << 141, 164, 140, 82, 92, 119, 87, 3, 122, 179, 217, 167, 121, 107, 76, 200,
            217, 200, 61, 229, 236, 160, 81, 90, 67, 9, 186, 93, 120, 68, 255, 151,
            56, 20, 124, 195, 115, 213, 172, 95, 95, 38, 210, 61, 31, 4, 253, 31,
            36, 72, 139, 61, 121, 74, 133, 46, 64, 115, 50, 12, 191, 112, 116, 205 >>)
    @@ ("Alice tries BananaSplit again" :>
         << 248, 13, 255, 119, 17, 24, 69, 31, 111, 84, 101, 144, 84, 16, 112, 37,
            204, 158, 76, 233, 12, 250, 107, 81, 168, 209, 129, 132, 10, 78, 71, 12,
            16, 229, 48, 224, 205, 33, 2, 55, 145, 222, 98, 40, 87, 221, 69, 28,
            53, 137, 91, 29, 224, 111, 137, 160, 155, 7, 17, 207, 16, 207, 29, 116 >>)
    @@ ("terrible\"truth\\\"escaping" :>
         << 107, 30, 110, 6, 27, 114, 38, 212, 201, 107, 231, 131, 224, 79, 188, 206,
            170, 201, 177, 126, 156, 32, 186, 80, 146, 253, 218, 114, 180, 185, 67, 6,
            209, 183, 52, 245, 94, 133, 223, 173, 241, 1, 37, 123, 98, 113, 142, 42,
            108, 187, 221, 135, 112, 219, 183, 252, 0, 84, 207, 134, 204, 205, 255, 210 >>)
    @@ ("alice has too many friends" :>
         << 96, 102, 111, 115, 63, 145, 90, 51, 208, 35, 30, 4, 185, 153, 192, 20,
            114, 188, 45, 40, 45, 4, 85, 217, 104, 39, 107, 137, 85, 134, 42, 117,
            222, 146, 34, 176, 246, 180, 106, 153, 186, 246, 110, 114, 206, 95, 247, 62,
            151, 195, 42, 17, 35, 0, 213, 79, 134, 34, 222, 227, 6, 12, 198, 96 >>)

hash_string(title) == Sha512Of[title]

\* scrypt(passphrase, salt, Params::new(15, 8, 1, 32)), as the library
\* computes it, on the passphrases and salts of the model and of tests.rs
ScryptOf ==
    (<< "P1", hash_string("T1") >> :>
         << 182, 194, 215, 6, 249, 64, 196, 11, 203, 78, 186, 167, 90, 161, 95, 24,
            169, 175, 106, 182, 245, 33, 65, 102, 171, 192, 243, 36, 181, 150, 97, 157 >>)
    @@ (<< "P1", hash_string("T2") >> :>
         << 107, 226, 43, 145, 202, 232, 234, 85, 86, 50, 91, 173, 74, 1, 163, 150,
            134, 116, 36, 48, 61, 222, 185, 70, 34, 168, 79, 186, 242, 43, 29, 24 >>)
    @@ (<< "P1", hash_string("Alice tries BananaSplit again") >> :>
         << 81, 136, 214, 206, 223, 79, 97, 98, 217, 95, 34, 129, 7, 16, 90, 208,
            70, 7, 89, 166, 219, 81, 196, 47, 91, 235, 21, 24, 45, 81, 126, 252 >>)
    @@ (<< "P1", hash_string("terrible\"truth\\\"escaping") >> :>
         << 248, 145, 9, 181, 17, 140, 109, 241, 108, 94, 225, 147, 31, 26, 100, 205,
            194, 134, 109, 153, 83, 241, 138, 35, 228, 24, 156, 217, 74, 238, 138, 119 >>)
    @@ (<< "P1", hash_string("alice has too many friends") >> :>
         << 132, 81, 21, 96, 218, 155, 191, 44, 159, 232, 99, 97, 77, 62, 175, 52,
            29, 183, 150, 180, 42, 197, 149, 224, 212, 0, 241, 232, 218, 68, 244, 155 >>)
    @@ (<< "P2", hash_string("T1") >> :>
         << 23, 215, 141, 49, 181, 35, 40, 42, 194, 234, 25, 130, 225, 109, 104, 40,
            252, 233, 56, 120, 227, 34, 124, 224, 198, 238, 232, 182, 237, 61, 196, 126 >>)
    @@ (<< "P2", hash_string("T2") >> :>
         << 42, 88, 53, 107, 59, 123, 74, 27, 85, 75, 79, 83, 149, 210, 12, 151,
            65, 116, 23, 87, 106, 23, 22, 134, 140, 133, 74, 161, 160, 248, 93, 55 >>)
    @@ (<< "P2", hash_string("Alice tries BananaSplit again") >> :>
         << 19, 178, 187, 52, 162, 138, 220, 162, 146, 210, 161, 54, 160, 73, 250, 239,
            167, 161, 242, 129, 70, 30, 177, 155, 29, 91, 76, 179, 189, 75, 74, 0 >>)
    @@ (<< "P2", hash_string("terrible\"truth\\\"escaping") >> :>
         << 67, 72, 254, 79, 59, 59, 234, 57, 239, 133, 179, 84, 130, 201, 104, 18,
            245, 210, 65, 31, 70, 167, 54, 181, 124, 124, 229, 128, 84, 26, 166, 57 >>)
    @@ (<< "P2", hash_string("alice has too many friends") >> :>
         << 130, 75, 167, 207, 84, 90, 15, 140, 117, 243, 159, 192, 166, 207, 200, 126,
            212, 144, 243, 9, 201, 225, 61, 250, 229, 246, 18, 36, 102, 126, 64, 29 >>)
    @@ (<< "blighted-comprised-bucktooth-disjoin", hash_string("T1") >> :>
         << 191, 47, 60, 232, 32, 64, 190, 108, 58, 28, 32, 124, 227, 91, 81, 197,
            75, 64, 14, 160, 147, 245, 128, 4, 199, 90, 54, 83, 151, 254, 66, 145 >>)
    @@ (<< "blighted-comprised-bucktooth-disjoin", hash_string("T2") >> :>
         << 113, 176, 51, 129, 150, 185, 85, 0, 70, 109, 248, 50, 222, 136, 6, 137,
            37, 233, 215, 118, 52, 156, 193, 97, 32, 119, 249, 156, 196, 170, 72, 139 >>)
    @@ (<< "blighted-comprised-bucktooth-disjoin", hash_string("Alice tries BananaSplit again") >> :>
         << 244, 152, 203, 54, 66, 19, 79, 190, 251, 20, 168, 78, 95, 97, 223, 84,
            153, 194, 28, 48, 57, 54, 145, 72, 152, 101, 136, 22, 90, 171, 248, 50 >>)
    @@ (<< "blighted-comprised-bucktooth-disjoin", hash_string("terrible\"truth\\\"escaping") >> :>
         << 22, 121, 212, 149, 35, 157, 220, 1, 75, 57, 40, 104, 168, 66, 143, 115,
            37, 57, 21, 94, 154, 28, 27, 33, 199, 42, 33, 249, 117, 231, 156, 26 >>)
    @@ (<< "blighted-comprised-bucktooth-disjoin", hash_string("alice has too many friends") >> :>
         << 231, 243, 207, 160, 76, 154, 29, 183, 143, 209, 129, 185, 184, 185, 44, 212,
            71, 113, 223, 119, 114, 255, 127, 91, 156, 89, 213, 63, 26, 212, 72, 100 >>)
    @@ (<< "clapping-deskbound-carving-compress", hash_string("T1") >> :>
         << 117, 72, 65, 206, 57, 175, 214, 183, 76, 196, 240, 95, 62, 134, 0, 21,
            150, 100, 68, 99, 104, 173, 187, 48, 19, 131, 104, 253, 123, 92, 50, 179 >>)
    @@ (<< "clapping-deskbound-carving-compress", hash_string("T2") >> :>
         << 146, 215, 119, 158, 135, 69, 214, 97, 241, 30, 110, 124, 185, 88, 129, 206,
            6, 138, 192, 175, 37, 181, 56, 54, 234, 220, 79, 245, 166, 191, 186, 120 >>)
    @@ (<< "clapping-deskbound-carving-compress", hash_string("Alice tries BananaSplit again") >> :>
         << 186, 20, 12, 243, 209, 59, 135, 218, 111, 91, 141, 231, 198, 68, 70, 100,
            208, 226, 240, 166, 53, 144, 105, 28, 242, 24, 2, 33, 28, 77, 129, 122 >>)
    @@ (<< "clapping-deskbound-carving-compress", hash_string("terrible\"truth\\\"escaping") >> :>
         << 122, 118, 186, 228, 100, 217, 85, 124, 52, 21, 48, 78, 73, 28, 175, 164,
            69, 95, 100, 163, 89, 2, 181, 243, 180, 162, 52, 236, 135, 118, 91, 35 >>)
    @@ (<< "clapping-deskbound-carving-compress", hash_string("alice has too many friends") >> :>
         << 0, 158, 125, 57, 61, 158, 226, 239, 223, 118, 185, 2, 184, 134, 113, 229,
            97, 120, 65, 139, 140, 252, 55, 217, 245, 222, 33, 159, 175, 233, 98, 3 >>)
    @@ (<< "appetizer-deserving-accompany-cusp", hash_string("T1") >> :>
         << 176, 26, 98, 252, 45, 66, 29, 38, 176, 56, 201, 105, 164, 152, 138, 232,
            60, 48, 85, 235, 137, 29, 147, 84, 223, 192, 249, 73, 226, 127, 104, 249 >>)
    @@ (<< "appetizer-deserving-accompany-cusp", hash_string("T2") >> :>
         << 150, 99, 162, 252, 221, 35, 15, 180, 119, 54, 26, 56, 50, 62, 209, 111,
            89, 94, 89, 30, 220, 115, 25, 172, 33, 252, 86, 229, 210, 126, 15, 167 >>)
    @@ (<< "appetizer-deserving-accompany-cusp", hash_string("Alice tries BananaSplit again") >> :>
         << 31, 59, 129, 117, 237, 62, 41, 195, 152, 249, 56, 162, 254, 200, 183, 201,
            10, 43, 212, 16, 226, 181, 168, 131, 130, 252, 190, 161, 152, 21, 108, 106 >>)
    @@ (<< "appetizer-deserving-accompany-cusp", hash_string("terrible\"truth\\\"escaping") >> :>
         << 248, 185, 213, 172, 221, 175, 78, 201, 155, 254, 208, 45, 219, 213, 83, 42,
            253, 137, 58, 225, 221, 172, 200, 194, 160, 17, 253, 145, 85, 52, 165, 214 >>)
    @@ (<< "appetizer-deserving-accompany-cusp", hash_string("alice has too many friends") >> :>
         << 222, 129, 5, 35, 233, 140, 138, 116, 32, 74, 134, 78, 222, 117, 117, 216,
            30, 51, 148, 90, 69, 63, 90, 123, 113, 16, 127, 224, 7, 252, 88, 121 >>)

scrypt(passphrase, salt) == ScryptOf[<< passphrase, salt >>]

\* ---- XSalsa20Poly1305, the cipher of encrypt and recover ----
\* A 32-bit word is << high half, low half >>, each half in 0 .. 65535.
HalfSize == 65536

WordAdd(a, b) ==
    Bind(a[2] + b[2],
         LAMBDA lo : << (a[1] + b[1] + (lo \div HalfSize)) % HalfSize,
                        lo % HalfSize >>)

WordXor(a, b) == << Xor(a[1], b[1]), Xor(a[2], b[2]) >>

\* rotation to the left by n bits, n in 1 .. 31
RECURSIVE WordRotl(_, _)
WordRotl(a, n) ==
    IF n >= 16 THEN WordRotl(<< a[2], a[1] >>, n - 16)
    ELSE IF n = 0 THEN a
    ELSE << ((a[1] * Pow2(n)) % HalfSize) + (a[2] \div Pow2(16 - n)),
            ((a[2] * Pow2(n)) % HalfSize) + (a[1] \div Pow2(16 - n)) >>

\* little-endian word of the four bytes from position i on, and back
WordAt(bytes, i) ==
    << bytes[i + 2] + (256 * bytes[i + 3]), bytes[i] + (256 * bytes[i + 1]) >>
WordBytes(w) == << w[2] % 256, w[2] \div 256, w[1] % 256, w[1] \div 256 >>

RECURSIVE Flatten(_, _)
Flatten(seqs, k) ==
    IF k > Len(seqs) THEN << >> ELSE seqs[k] \o Flatten(seqs, k + 1)

\* the quarter round on the words a, b, c, d (counted from 0) as four steps
\* << t, p, q, n >>: word t becomes word t XOR ((word p + word q) <<< n)
QuarterRound(a, b, c, d) ==
    << << b, a, d, 7 >>, << c, b, a, 9 >>, << d, c, b, 13 >>, << a, d, c, 18 >> >>

\* a column round, then a row round
DoubleRound ==
    QuarterRound(0, 4, 8, 12) \o QuarterRound(5, 9, 13, 1)
      \o QuarterRound(10, 14, 2, 6) \o QuarterRound(15, 3, 7, 11)
      \o QuarterRound(0, 1, 2, 3) \o QuarterRound(5, 6, 7, 4)
      \o QuarterRound(10, 11, 8, 9) \o QuarterRound(15, 12, 13, 14)

SalsaStep(x, step) ==
    Bind(WordAdd(x[step[2] + 1], x[step[3] + 1]),
         LAMBDA sum : [x EXCEPT ![step[1] + 1] =
                         WordXor(x[step[1] + 1], WordRotl(sum, step[4]))])

\* the steps lo .. hi of the ten double rounds, in order
RECURSIVE SalsaSteps(_, _, _)
SalsaSteps(x, lo, hi) ==
    IF lo = hi THEN SalsaStep(x, DoubleRound[((lo - 1) % Len(DoubleRound)) + 1])
    ELSE Bind(SalsaSteps(x, lo, (lo + hi) \div 2),
              LAMBDA left : SalsaSteps(left, ((lo + hi) \div 2) + 1, hi))

SalsaRounds(x) == SalsaSteps(x, 1, 10 * Len(DoubleRound))

\* "expand 32-byte k"
Sigma ==
    << 101, 120, 112, 97, 110, 100, 32, 51, 50, 45, 98, 121, 116, 101, 32, 107 >>

\* the 16 words of the Salsa20 input: a 32-byte key and 16 bytes of input
SalsaInput(key, input) ==
    Vec([k \in 1 .. 16 |->
         IF k \in {1, 6, 11, 16} THEN WordAt(Sigma, (4 * ((k - 1) \div 5)) + 1)
         ELSE IF k \in 2 .. 5 THEN WordAt(key, (4 * (k - 2)) + 1)
         ELSE IF k \in 7 .. 10 THEN WordAt(input, (4 * (k - 7)) + 1)
         ELSE WordAt(key, (4 * (k - 12)) + 17)])

\* the sub-key of XSalsa20: the words 0, 5, 10, 15, 6, 7, 8, 9 after the
\* rounds on the key and the first 16 bytes of the nonce
HSalsa20(key, input) ==
    Bind(SalsaRounds(SalsaInput(key, input)),
         LAMBDA x : Flatten(<< WordBytes(x[1]), WordBytes(x[6]),
                               WordBytes(x[11]), WordBytes(x[16]),
                               WordBytes(x[7]), WordBytes(x[8]),
                               WordBytes(x[9]), WordBytes(x[10]) >>, 1))

\* the 64-byte block of the Salsa20 key stream: the words after the rounds,
\* each added to the word of the input
Salsa20Block(key, input) ==
    Bind(SalsaInput(key, input),
         LAMBDA in :
           Bind(SalsaRounds(in),
                LAMBDA x :
                  Flatten(Vec([k \in 1 .. 16 |->
                                 WordBytes(WordAdd(x[k], in[k]))]), 1)))

\* block number ctr (from 0) of the XSalsa20 key stream: Salsa20 under the
\* sub-key, on the last 8 bytes of the nonce and the 64-bit block counter
StreamBlock(key, nonce, ctr) ==
    Salsa20Block(HSalsa20(key, SubSeq(nonce, 1, 16)),
                 SubSeq(nonce, 17, NonceLen)
                   \o << ctr % 256, ctr \div 256, 0, 0, 0, 0, 0, 0 >>)

\* the passphrases and the nonce of the machine below
Passphrases == {"P1", "P2"}
NonceA == [k \in 1 .. NonceLen |-> (163 + (7 * k)) % 256]

\* block 0 of the key stream under the keys and the nonce of the machine,
\* computed once
StreamBlocks ==
    [kn \in {<< scrypt(p, hash_string(t)), NonceA >> :
               p \in Passphrases, t \in {"T1", "T2"}}
       |-> StreamBlock(kn[1], kn[2], 0)] @@ << >>

\* the first len bytes of the key stream
KeyStream(key, nonce, len) ==
    IF len <= 64 /\ << key, nonce >> \in DOMAIN StreamBlocks
    THEN SubSeq(StreamBlocks[<< key, nonce >>], 1, len)
    ELSE SubSeq(Flatten(Vec([b \in 1 .. (len + 63) \div 64 |->
                               StreamBlock(key, nonce, b - 1)]), 1), 1, len)

\* ---- Poly1305: numbers below 2^136 as 17 bytes, lowest first ----
\* the values v[j], v[j + 1], ... with the carry u added through: a byte
\* for each value, then the carry that is left
RECURSIVE Carry(_, _, _)
Carry(v, j, u) ==
    IF j > Len(v) THEN << u >>
    ELSE Bind(u + v[j],
              LAMBDA s : << s % 256 >> \o Carry(v, j + 1, s \div 256))

\* h + c modulo 2^136
PolyAdd(h, c) ==
    Bind(Vec([j \in 1 .. 17 |-> h[j] + c[j]]),
         LAMBDA v : SubSeq(Carry(v, 1, 0), 1, 17))

\* h with what lies above 2^130 folded back as its multiple of 5
PolySqueeze(h) ==
    Bind(Carry(SubSeq(h, 1, 16), 1, 0),
         LAMBDA low :
           Bind(low[17] + h[17],
                LAMBDA u :
                  Bind(Carry(SubSeq(low, 1, 16), 1, 5 * (u \div 4)),
                       LAMBDA out : [out EXCEPT ![17] = out[17] + (u % 4)])))

RECURSIVE SumSeq(_, _)
SumSeq(s, k) == IF k = 0 THEN 0 ELSE s[k] + SumSeq(s, k - 1)

\* h * r modulo 2^130 - 5 (not fully reduced): 2^136 is 320 modulo 2^130 - 5
PolyMul(h, r) ==
    PolySqueeze(
      Vec([i \in 1 .. 17 |->
           Bind(Vec([j \in 1 .. 17 |->
                       IF j <= i THEN h[j] * r[(i - j) + 1]
                       ELSE 320 * h[j] * r[(i + 17 - j) + 1]]),
                LAMBDA terms : SumSeq(terms, 17))]))

\* 2^136 - (2^130 - 5)
PolyMinusP == << 5, 0, 0, 0, 0, 0, 0, 0, 0, 0, 0, 0, 0, 0, 0, 0, 252 >>

\* h reduced below 2^130 - 5
PolyFreeze(h) ==
    Bind(PolyAdd(h, PolyMinusP),
         LAMBDA g : IF g[17] >= 128 THEN h ELSE g)

\* r of the one-time key, clamped
PolyClamp(key) ==
    Vec([j \in 1 .. 17 |->
         IF j = 17 THEN 0
         ELSE IF j \in {4, 8, 12, 16} THEN key[j] % 16
         ELSE IF j \in {5, 9, 13} THEN key[j] - (key[j] % 4)
         ELSE key[j]])

\* the 16 bytes of the message from position i on (fewer at the end), then 1
PolyBlock(msg, i) ==
    Bind(IF Len(msg) - i + 1 < 16 THEN Len(msg) - i + 1 ELSE 16,
         LAMBDA n : Vec([j \in 1 .. 17 |->
                           IF j <= n THEN msg[i + j - 1]
                           ELSE IF j = n + 1 THEN 1 ELSE 0]))

\* the blocks from number b on, accumulated into h
RECURSIVE PolyBlocks(_, _, _, _)
PolyBlocks(h, r, msg, b) ==
    IF (16 * b) >= Len(msg) THEN h
    ELSE Bind(PolyMul(PolyAdd(h, PolyBlock(msg, (16 * b) + 1)), r),
              LAMBDA next : PolyBlocks(next, r, msg, b + 1))

\* Poly1305 of msg under a 32-byte one-time key
Poly1305(key, msg) ==
    Bind(PolyClamp(key),
         LAMBDA r :
           Bind(PolyFreeze(PolyBlocks(Repeat(0, 17), r, msg, 0)),
                LAMBDA h :
                  SubSeq(PolyAdd(h, SubSeq(key, 17, 32) \o << 0 >>), 1, 16)))

\* the bytes XORed with the key stream from its byte 33 on
StreamXor(stream, bytes) ==
    Vec([i \in 1 .. Len(bytes) |-> Xor(bytes[i], stream[32 + i])])

\* the tag of the encrypted bytes: Poly1305 under the first 32 bytes of the
\* key stream
Tag(stream, encrypted) == Poly1305(SubSeq(stream, 1, 32), encrypted)

\* cipher.encrypt(nonce, plaintext): the tag, then the encrypted bytes
Aead_encrypt(key, nonce, plaintext) ==
    Bind(KeyStream(key, nonce, 32 + Len(plaintext)),
         LAMBDA stream :
           Bind(StreamXor(stream, plaintext),
                LAMBDA encrypted : Tag(stream, encrypted) \o encrypted))

\* cipher.decrypt(nonce, data); GenericArray::from_slice panics on a nonce
\* that is not 24 bytes long
Aead_decrypt(key, nonce, data) ==
    IF Len(nonce) # NonceLen THEN Panic("nonce length")
    ELSE IF Len(data) < TagLen THEN Err("aead", 0)
    ELSE Bind(KeyStream(key, nonce, 32 + (Len(data) - TagLen)),
              LAMBDA stream :
                Bind(SubSeq(data, TagLen + 1, Len(data)),
                     LAMBDA encrypted :
                       IF SubSeq(data, 1, TagLen) = Tag(stream, encrypted)
                       THEN Ok(StreamXor(stream, encrypted))
                       ELSE Err("aead", 0)))

\* String::from_utf8(bytes).is_ok(), from the byte at k on: one-byte
\* characters, then the well-formed sequences of two, three and four bytes
\* (no overlong form, no surrogate, nothing above U+10FFFF)
RECURSIVE Utf8From(_, _)
Utf8From(bytes, k) ==
    LET len     == Len(bytes)
        b       == bytes[k]
        Cont(i) == i <= len /\ bytes[i] \in 128 .. 191
        In(i, lo, hi) == i <= len /\ bytes[i] \in lo .. hi
    IN  IF k > len THEN TRUE
        ELSE IF b < 128 THEN Utf8From(bytes, k + 1)
        ELSE IF b \in 194 .. 223
             THEN Cont(k + 1) /\ Utf8From(bytes, k + 2)
        ELSE IF b = 224
             THEN In(k + 1, 160, 191) /\ Cont(k + 2) /\ Utf8From(bytes, k + 3)
        ELSE IF b \in 225 .. 236 \/ b \in 238 .. 239
             THEN Cont(k + 1) /\ Cont(k + 2) /\ Utf8From(bytes, k + 3)
        ELSE IF b = 237
             THEN In(k + 1, 128, 159) /\ Cont(k + 2) /\ Utf8From(bytes, k + 3)
        ELSE IF b = 240
             THEN /\ In(k + 1, 144, 191) /\ Cont(k + 2) /\ Cont(k + 3)
                  /\ Utf8From(bytes, k + 4)
        ELSE IF b \in 241 .. 243
             THEN /\ Cont(k + 1) /\ Cont(k + 2) /\ Cont(k + 3)
                  /\ Utf8From(bytes, k + 4)
        ELSE IF b = 244
             THEN /\ In(k + 1, 128, 143) /\ Cont(k + 2) /\ Cont(k + 3)
                  /\ Utf8From(bytes, k + 4)
        ELSE FALSE

IsUtf8(bytes) == Utf8From(bytes, 1)

\* pub fn encrypt(secret, title, passphrase, total_shards, required_shards),
\* with the nonce and the coefficient stream the generator gives it
encrypt(secret, title, passphrase, total_shards, required_shards, nonce, seed) ==
    LET key       == scrypt(passphrase, hash_string(title))
        encrypted == Aead_encrypt(key, nonce, secret)
        shares    == share(encrypted, total_shards, required_shards, seed)
    IN  IF ~IsOk(shares) THEN shares
        ELSE Ok([k \in 1 .. Len(shares.val) |->
                   [v |-> "1", t |-> title, r |-> required_shards,
                    d |-> shares.val[k], n |-> BASE64_encode(nonce)]])

(***************************************************************************)
(* Combiner.                                                               *)
(***************************************************************************)
\* bit k (1 = most significant) of the low `bits` bits of v: new_bitvec[cut..]
BitOf(v, bits, k) == (v \div Pow2(bits - k)) % 2

\* The byte whose bits, most significant first, are stream[from + 1 ..
\* from + 8]; a position past the end of the stream is a dead bit of the
\* last storage element and reads as the matching bit of dead.
RECURSIVE PackByte(_, _, _, _)
PackByte(stream, from, k, dead) ==
    IF k > 8 THEN 0
    ELSE (Pow2(8 - k) * (IF from + k <= Len(stream) THEN stream[from + k]
                         ELSE BitOf(dead, 8, k)))
         + PackByte(stream, from, k + 1, dead)

\* every value the dead bits of the last byte can hold
DeadBits(nbits) == 0 .. (Pow2((8 - (nbits % 8)) % 8) - 1)

\* The calls of lagrange in combine, one for each position of the content, on
\* the transposed content set: content_zipped[i][j] = content_set[j][i].
Interpolate(sip) ==
    Bind(LogsAndExps(sip.bits), LAMBDA t :
      Vec([i \in 1 .. sip.content_length |->
             lagrange(sip.id_set,
                      Vec([j \in 1 .. Len(sip.id_set) |-> sip.content_set[j][i]]),
                      t.logs, t.exps, sip.bits)]))

\* result.extend_from_bitslice(&new_bitvec[cut..]) for every new element
BitStream(news, bits) ==
    Vec([q \in 1 .. Len(news) * bits |->
           BitOf(news[((q - 1) \div bits) + 1].val, bits, ((q - 1) % bits) + 1)])

\* the number of bits that skip_while(|x| !*x).skip(1) drops
Skipped(result) ==
    IF \A q \in 1 .. Len(result) : result[q] = 0 THEN Len(result)
    ELSE CHOOSE q \in 1 .. Len(result) :
           result[q] = 1 /\ \A q2 \in 1 .. q - 1 : result[q2] = 0

\* result.into_iter().skip_while(|x| !*x): the marker bit is kept
CutZeros(result) ==
    Bind(Skipped(result), LAMBDA first :
      IF first = Len(result) /\ (first = 0 \/ result[first] = 0) THEN << >>
      ELSE Vec([q \in 1 .. (Len(result) - first) + 1 |-> result[(first + q) - 1]]))

\* result.into_iter().skip_while(|x| !*x).skip(1)
CutMarker(result) ==
    Bind(Skipped(result), LAMBDA first :
      Vec([q \in 1 .. Len(result) - first |-> result[first + q]]))

\* collect into BitVec<u8, Msb0>, then into_vec()
PackBytes(rest, dead) ==
    Vec([b \in 1 .. ((Len(rest) + 7) \div 8) |-> PackByte(rest, 8 * (b - 1), 1, dead)])

\* combine once the elements are interpolated
CombineFrom(sip, news, dead) ==
    IF \E i \in 1 .. Len(news) : ~IsOk(news[i])
    THEN news[CHOOSE i \in 1 .. Len(news) :
                ~IsOk(news[i]) /\ \A i2 \in 1 .. i - 1 : IsOk(news[i2])]
    ELSE IF ~IsOk(BASE64_decode(sip.nonce)) THEN Err("NonceNotBase64", 0)
    ELSE Bind(BitStream(news, sip.bits), LAMBDA result :
           Bind(CutMarker(result), LAMBDA rest :
             Ok([tag   |-> "SetCombined",
                 data  |-> PackBytes(rest, dead),
                 nonce |-> BASE64_decode(sip.nonce).val])))

\* fn combine(&self) -> Result<SetCombined, Error> on the SetInProgress sip;
\* dead is the content of the dead bits of the last byte of result.into_vec()
combine(sip, dead) ==
    Bind(Interpolate(sip), LAMBDA news : CombineFrom(sip, news, dead))

\* the number of bits left in `result` of combine after the marker is cut
\* (0 when combine returns early)
RestBits(sip) ==
    Bind(Interpolate(sip), LAMBDA news :
      IF \E i \in 1 .. Len(news) : ~IsOk(news[i]) THEN 0
      ELSE Bind(BitStream(news, sip.bits), LAMBDA result :
             Len(result) - Skipped(result)))

(***************************************************************************)
(* ShareSet.                                                               *)
(***************************************************************************)
\* init that does not record the length of the content
ShareSet_init_without_length(sh) ==
    [version         |-> sh.version,
     title           |-> sh.title,
     required_shards |-> sh.required_shards,
     state |-> [tag            |-> "SetInProgress",
                bits           |-> sh.bits,
                id_set         |-> << sh.id >>,
                content_length |-> 0,
                content_set    |-> << sh.content >>,
                nonce          |-> sh.nonce]]

\* pub fn init(share: Share) -> Self
ShareSet_init(sh) ==
    [version         |-> sh.version,
     title           |-> sh.title,
     required_shards |-> sh.required_shards,
     state |-> [tag            |-> "SetInProgress",
                bits           |-> sh.bits,
                id_set         |-> << sh.id >>,
                content_length |-> Len(sh.content),
                content_set    |-> << sh.content >>,
                nonce          |-> sh.nonce]]

\* The part of try_add_share after the admission checks: push id and
\* content, then combine if enough shares are there.
PushAndCombine(self, new, dead) ==
    LET pushed == [self EXCEPT !.state.id_set = Append(@, new.id),
                               !.state.content_set = Append(@, new.content)]
    IN  IF Len(pushed.state.id_set) >= self.required_shards
        THEN Bind(combine(pushed.state, dead), LAMBDA set_combined :
               IF IsOk(set_combined)
               THEN [self |-> [pushed EXCEPT !.state = set_combined.val],
                     res  |-> Ok(0)]
               ELSE [self |-> pushed, res |-> set_combined])
        ELSE [self |-> pushed, res |-> Ok(0)]

\* The admission checks without the check of id novelty.
Admission_without_novelty(self, new) ==
    IF new.version # self.version THEN Err("ShareVersionDifferent", 0)
    ELSE IF new.title # self.title THEN Err("ShareTitleDifferent", 0)
    ELSE IF new.required_shards # self.required_shards
         THEN Err("ShareRequiredShardsDifferent", 0)
    ELSE IF new.nonce # self.state.nonce THEN Err("ShareNonceDifferent", 0)
    ELSE IF new.bits # self.state.bits THEN Err("ShareBitsDifferent", 0)
    ELSE IF self.state.content_length # Len(new.content)
         THEN Err("ShareContentLengthDifferent", 0)
    ELSE Ok(0)

\* The admission checks with bits compared before title.
Admission_bits_before_title(self, new) ==
    IF new.version # self.version THEN Err("ShareVersionDifferent", 0)
    ELSE IF new.bits # self.state.bits THEN Err("ShareBitsDifferent", 0)
    ELSE IF new.title # self.title THEN Err("ShareTitleDifferent", 0)
    ELSE IF new.required_shards # self.required_shards
         THEN Err("ShareRequiredShardsDifferent", 0)
    ELSE IF new.nonce # self.state.nonce THEN Err("ShareNonceDifferent", 0)
    ELSE IF \E k \in 1 .. Len(self.state.id_set) : self.state.id_set[k] = new.id
         THEN Err("ShareAlreadyInSet", 0)
    ELSE IF self.state.content_length # Len(new.content)
         THEN Err("ShareContentLengthDifferent", 0)
    ELSE Ok(0)

\* The admission checks of try_add_share, in the order of the source: the
\* error of the first check that fails, or Ok.
Admission(self, new) ==
    IF new.version # self.version THEN Err("ShareVersionDifferent", 0)
    ELSE IF new.title # self.title THEN Err("ShareTitleDifferent", 0)
    ELSE IF new.required_shards # self.required_shards
         THEN Err("ShareRequiredShardsDifferent", 0)
    ELSE IF new.nonce # self.state.nonce THEN Err("ShareNonceDifferent", 0)
    ELSE IF new.bits # self.state.bits THEN Err("ShareBitsDifferent", 0)
    ELSE IF \E k \in 1 .. Len(self.state.id_set) : self.state.id_set[k] = new.id
         THEN Err("ShareAlreadyInSet", 0)
    ELSE IF self.state.content_length # Len(new.content)
         THEN Err("ShareContentLengthDifferent", 0)
    ELSE Ok(0)

\* try_add_share that compares a new share with a combined set as well
try_add_share_checked_when_combined(self, new, dead) ==
    IF self.state.tag = "SetInProgress"
    THEN IF ~IsOk(Admission(self, new))
         THEN [self |-> self, res |-> Admission(self, new)]
         ELSE PushAndCombine(self, new, dead)
    ELSE IF new.version # self.version
         THEN [self |-> self, res |-> Err("ShareVersionDifferent", 0)]
    ELSE IF new.title # self.title
         THEN [self |-> self, res |-> Err("ShareTitleDifferent", 0)]
    ELSE IF new.required_shards # self.required_shards
         THEN [self |-> self, res |-> Err("ShareRequiredShardsDifferent", 0)]
    ELSE [self |-> self, res |-> Ok(0)]

\* pub fn try_add_share(&mut self, new: Share) -> Result<(), Error>: the set
\* after the call and the value returned
try_add_share(self, new, dead) ==
    IF self.state.tag = "SetInProgress"
    THEN IF ~IsOk(Admission(self, new))
         THEN [self |-> self, res |-> Admission(self, new)]
         ELSE PushAndCombine(self, new, dead)
    ELSE [self |-> self, res |-> Ok(0)]

\* pub fn next_action(&self) -> NextAction
next_action(self) ==
    IF self.state.tag = "SetInProgress"
    THEN [tag |-> "MoreShares", have |-> Len(self.state.id_set),
          need |-> self.required_shards]
    ELSE [tag |-> "AskUserForPassword"]

\* recover_with_passphrase that decrypts whatever the set holds: a set in
\* progress has no ciphertext and the decryption fails
recover_without_state_check(self, passphrase) ==
    IF self.state.tag = "SetCombined"
    THEN Bind(Aead_decrypt(scrypt(passphrase, hash_string(self.title)),
                           self.state.nonce, self.state.data),
              LAMBDA a :
                IF a.kind = "Panic" THEN [self |-> self, res |-> a]
                ELSE IF ~IsOk(a)
                     THEN [self |-> self, res |-> Err("DecodingFailed", 0)]
                ELSE IF IsUtf8(a.val) THEN [self |-> self, res |-> Ok(a.val)]
                ELSE [self |-> self, res |-> Err("DecodedSecretNotString", 0)])
    ELSE [self |-> self, res |-> Err("DecodingFailed", 0)]

\* recover_with_passphrase that consumes the ciphertext when decryption fails
recover_consuming(self, passphrase) ==
    IF self.state.tag = "SetCombined"
    THEN LET consumed == [self EXCEPT !.state.data = << >>]
         IN  Bind(Aead_decrypt(scrypt(passphrase, hash_string(self.title)),
                               self.state.nonce, self.state.data),
                  LAMBDA a :
                    IF a.kind = "Panic" THEN [self |-> self, res |-> a]
                    ELSE IF ~IsOk(a)
                         THEN [self |-> consumed, res |-> Err("DecodingFailed", 0)]
                    ELSE IF IsUtf8(a.val) THEN [self |-> self, res |-> Ok(a.val)]
                    ELSE [self |-> consumed,
                          res |-> Err("DecodedSecretNotString", 0)])
    ELSE [self |-> self, res |-> Err("NotReadyToDecode", 0)]

\* pub fn recover_with_passphrase(&self, passphrase: &str) -> Result<String, Error>:
\* the set after the call (self is borrowed immutably) and the value returned
recover_with_passphrase(self, passphrase) ==
    IF self.state.tag = "SetCombined"
    THEN Bind(Aead_decrypt(scrypt(passphrase, hash_string(self.title)),
                           self.state.nonce, self.state.data),
              LAMBDA a :
                IF a.kind = "Panic" THEN [self |-> self, res |-> a]
                ELSE IF ~IsOk(a)
                     THEN [self |-> self, res |-> Err("DecodingFailed", 0)]
                ELSE IF IsUtf8(a.val) THEN [self |-> self, res |-> Ok(a.val)]
                ELSE [self |-> self, res |-> Err("DecodedSecretNotString", 0)])
    ELSE [self |-> self, res |-> Err("NotReadyToDecode", 0)]

(***************************************************************************)
(* The machine: one call of encrypt, then one ShareSet fed with scanned    *)
(* payloads.                                                               *)
(***************************************************************************)
VARIABLES
    enc,       \* the call of encrypt: its arguments and what it returned
    scanned,   \* Option of the Share the caller holds, parsed and not yet used
    set,       \* the ShareSet, [state |-> [tag |-> "Absent"]] before init
    last,      \* the latest call and what it returned
    collected, \* shares taken in: 1 at init, 1 more for each try_add_share
               \* that returned Ok on a set in progress
    genuine,   \* every share taken in so far is one encrypt returned, unchanged
    probe      \* the look-up in the field tables: what is asked, then the answer

vars == << enc, scanned, set, last, collected, genuine, probe >>

\* a nonce string that is no base64 text: "no!"
BadNonce == << 110, 111, 33 >>

Secrets ==
    { << >>, << 195, 169 >>, << 104, 105, 33, 63 >>, << 98, 97, 110, 97, 110 >> }
Seeds == {0, 1, 171}

\* arguments of encrypt
WideInputs ==
    [secret : Secrets, title : {"T1"}, pass : Passphrases,
     total : 1 .. MaxShares, required : 0 .. MaxShares, seed : Seeds]
NarrowInputs ==
    [secret : {<< 104, 105, 33, 63 >>}, title : {"T1"}, pass : {"P1"},
     total : {2, 3}, required : {1, 2, 3}, seed : {1}]

\* What a scanner can hand over in place of the payload w: the fields named
\* in m differ from what the splitter wrote.
MutFields == {"v", "t", "r", "n", "bits", "len"}
Mutations == {m \in SUBSET MutFields : Cardinality(m) <= MaxMutations}
Mutate(w, m) ==
    LET body  == BASE64_decode(Tail(w.d)).val
        bytes == IF "len" \in m THEN SubSeq(body, 1, Len(body) - 1) ELSE body
    IN  [v |-> IF "v" \in m THEN "null" ELSE w.v,
         t |-> IF "t" \in m THEN "T2" ELSE w.t,
         r |-> IF "r" \in m THEN w.r + 1 ELSE w.r,
         n |-> IF "n" \in m THEN BadNonce ELSE w.n,
         d |-> (IF "bits" \in m THEN format_radix(MIN_BITS, 36) ELSE << w.d[1] >>)
                 \o (IF "v" \in m THEN hex_encode(bytes)
                     ELSE IF "len" \in m THEN BASE64_encode(bytes)
                     ELSE Tail(w.d))]

Absent == [state |-> [tag |-> "Absent"]]
Alive == last.res.kind # "Panic"

Init ==
    /\ enc = [tag |-> "none"]
    /\ scanned = None
    /\ set = Absent
    /\ last = [op |-> "none", res |-> Ok(0)]
    /\ collected = 0
    /\ genuine = TRUE
    /\ probe = [tag |-> "none"]

\* encrypt(secret, title, passphrase, total_shards, required_shards)
Encrypt(in) ==
    /\ enc.tag = "none"
    /\ \E res \in {encrypt(in.secret, in.title, in.pass, in.total, in.required,
                            NonceA, in.seed)} :
          /\ enc' = [tag |-> "done", in |-> in, res |-> res]
          /\ last' = [op |-> "encrypt", res |-> res]
    /\ UNCHANGED << scanned, set, collected, genuine, probe >>

\* Share::new on every payload the scanner can make of the shares that
\* encrypt writes for NarrowInputs, computed once
ScanCache ==
    [in \in NarrowInputs |->
       Bind(encrypt(in.secret, in.title, in.pass, in.total, in.required,
                    NonceA, in.seed),
            LAMBDA res :
              IF IsOk(res)
              THEN Vec([k \in 1 .. Len(res.val) |->
                          [m \in Mutations |-> Share_new(Mutate(res.val[k], m))]
                            @@ << >>])
              ELSE << >>)] @@ << >>

\* Share::new on the payload w, which is payload k of encrypt(in) as altered
\* by m
ScanResult(in, k, w, m) ==
    IF in \in DOMAIN ScanCache THEN ScanCache[in][k][m]
    ELSE Share_new(Mutate(w, m))

\* Share::new on the payload k of encrypt as the scanner hands it over
Scan(k, m) ==
    /\ Alive
    /\ enc.tag = "done" /\ IsOk(enc.res)
    /\ k \in 1 .. Len(enc.res.val)
    /\ scanned = None
    /\ \E res \in {ScanResult(enc.in, k, enc.res.val[k], m)} :
          /\ scanned' = IF IsOk(res) THEN Some([share |-> res.val, mut |-> m])
                        ELSE None
          /\ last' = [op |-> "scan", res |-> IF IsOk(res) THEN Ok(0) ELSE res]
    /\ UNCHANGED << enc, set, collected, genuine, probe >>

\* ShareSet::init(share)
SetInit ==
    /\ Alive
    /\ set.state.tag = "Absent"
    /\ IsSome(scanned)
    /\ set' = ShareSet_init(Unwrap(scanned).share)
    /\ scanned' = None
    /\ last' = [op |-> "init", res |-> Ok(0)]
    /\ collected' = 1
    /\ genuine' = (Unwrap(scanned).mut = {})
    /\ UNCHANGED << enc, probe >>

\* every content the dead bits can have when try_add_share(new) combines
DeadChoices(self, new) ==
    LET pushed == [self EXCEPT !.state.id_set = Append(@, new.id),
                               !.state.content_set = Append(@, new.content)]
    IN  IF /\ self.state.tag = "SetInProgress"
           /\ IsOk(Admission(self, new))
           /\ Len(pushed.state.id_set) >= self.required_shards
        THEN DeadBits(RestBits(pushed.state))
        ELSE {0}

\* share_set.try_add_share(share)
TryAddShare ==
    /\ Alive
    /\ set.state.tag # "Absent"
    /\ IsSome(scanned)
    /\ \E dead \in DeadChoices(set, Unwrap(scanned).share) :
       \E out \in {try_add_share(set, Unwrap(scanned).share, dead)} :
         LET took == set.state.tag = "SetInProgress" /\ IsOk(out.res)
         IN  /\ set' = out.self
             /\ last' = [op |-> "add", res |-> out.res,
                          mut |-> Unwrap(scanned).mut]
             /\ collected' = IF took THEN collected + 1 ELSE collected
             /\ genuine' = IF took THEN genuine /\ Unwrap(scanned).mut = {}
                           ELSE genuine
    /\ scanned' = None
    /\ UNCHANGED << enc, probe >>

\* whether the call before this one was a recover_with_passphrase that failed
FailedBefore == last.op = "recover" /\ ~IsOk(last.res)

\* share_set.recover_with_passphrase(passphrase)
Recover(passphrase) ==
    /\ Alive
    /\ set.state.tag # "Absent"
    /\ scanned = None
    /\ \E out \in {recover_with_passphrase(set, passphrase)} :
          /\ set' = out.self
          /\ last' = [op |-> "recover", pass |-> passphrase, res |-> out.res,
                       failed |-> FailedBefore]
    /\ UNCHANGED << enc, scanned, collected, genuine, probe >>

\* the scanner may alter the payloads
Next ==
    \/ \E in \in NarrowInputs : Encrypt(in)
    \/ \E k \in 1 .. MaxShares, m \in Mutations : Scan(k, m)
    \/ SetInit
    \/ TryAddShare
    \/ \E passphrase \in Passphrases : Recover(passphrase)

Spec == Init /\ [][Next]_vars

\* the scanner hands over the payloads as encrypt wrote them
NextRoundTrip ==
    \/ \E in \in WideInputs : Encrypt(in)
    \/ \E k \in 1 .. MaxShares : Scan(k, {})
    \/ SetInit
    \/ TryAddShare
    \/ \E passphrase \in Passphrases : Recover(passphrase)

SpecRoundTrip == Init /\ [][NextRoundTrip]_vars

\* the caller holds a field width n and an element x of the field
InitTables ==
    /\ enc = [tag |-> "none"]
    /\ scanned = None
    /\ set = Absent
    /\ last = [op |-> "none", res |-> Ok(0)]
    /\ collected = 0
    /\ genuine = TRUE
    /\ \E n \in MIN_BITS .. MaxBits : \E x \in 0 .. Pow2(n) - 1 :
         probe = [tag |-> "asked", n |-> n, x |-> x]

\* let (logs, exps) = generate_logs_and_exps(n), then the entry x of logs
\* and the entry of exps it points to
Probe ==
    /\ probe.tag = "asked"
    /\ \E t \in {LogsAndExps(probe.n)} :
         probe' = [tag |-> "done", n |-> probe.n, x |-> probe.x,
                   len_logs |-> Len(t.logs), len_exps |-> Len(t.exps),
                   log |-> At(t.logs, probe.x),
                   exp |-> IF IsSome(At(t.logs, probe.x))
                           THEN Get(t.exps, Unwrap(At(t.logs, probe.x)))
                           ELSE None]
    /\ UNCHANGED << enc, scanned, set, last, collected, genuine >>

NextTables == Probe

SpecTables == InitTables /\ [][NextTables]_vars

\* arguments of encrypt around the limits of share(): totals 0 .. MaxShares + 1
\* and next to 2^8 - 1, thresholds from 0 on
SplitInputs ==
    [secret : {<< >>, << 104, 105, 33, 63 >>}, title : {"T1"}, pass : {"P1"},
     total : (0 .. MaxShares + 1) \cup {254, 255, 256, 257},
     required : 0 .. MaxShares + 2, seed : {1}]

\* one call of encrypt on any of these arguments
NextSplit == \E in \in SplitInputs : Encrypt(in)

SpecSplit == Init /\ [][NextSplit]_vars

\* bodies of payloads: every sequence of at most MaxBody of these bytes
BodyBytes == {0, 1, 255}
Bodies == UNION {[1 .. len -> BodyBytes] : len \in 0 .. MaxBody}

\* first characters of the field d: the radix-36 digit of every width of
\* BIT_RANGE and of its two neighbours, 'K' (the digit of 20 in upper case),
\* a character that is no digit ('-'), and none
Heads ==
    {<< >>, << 45 >>, << 75 >>}
      \cup {format_radix(b, 36) : b \in MIN_BITS - 1 .. MAX_BITS + 1}

\* texts that neither codec reads: "!", "0" (odd length, no padding), "AB=="
\* (bits left over in the last symbol), "A=AA" (padding inside)
OddTexts == {<< 33 >>, << 48 >>, << 65, 66, 61, 61 >>, << 65, 61, 65, 65 >>}

\* what follows the first character: the base64 text and the hexadecimal
\* text of every body, and the texts that are neither
Tails ==
    {BASE64_encode(b) : b \in Bodies} \cup {hex_encode(b) : b \in Bodies}
      \cup OddTexts

\* parsed JSON payloads given to Share::new
Payloads ==
    [v : {"1", "null", "2"}, t : {"T1"}, r : {-1, 0, 1, 2},
     n : {BASE64_encode(NonceA)},
     d : {h \o t : h \in Heads, t \in Tails}]

\* the caller holds a payload
InitParse ==
    /\ enc = [tag |-> "none"]
    /\ scanned = None
    /\ set = Absent
    /\ collected = 0
    /\ genuine = TRUE
    /\ probe = [tag |-> "none"]
    /\ \E w \in Payloads : last = [op |-> "asked", res |-> Ok(0), payload |-> w]

\* Share::new(payload)
Parse ==
    /\ last.op = "asked"
    /\ \E res \in {Share_new(last.payload)} :
         /\ last' = [op |-> "parse", res |-> res, payload |-> last.payload]
         /\ scanned' = IF IsOk(res) THEN Some([share |-> res.val, mut |-> {}])
                       ELSE None
    /\ UNCHANGED << enc, set, collected, genuine, probe >>

NextParse == Parse

SpecParse == InitParse /\ [][NextParse]_vars

\* the element x - 1 of get_shares(secret, num_shares, threshold, bits) when
\* the generator fills coeffs: horner(x, [secret] ++ coeffs, logs, exps, bits)
ShareByte(x, secret, coeffs) ==
    Bind(LogsAndExps(SplitBits), LAMBDA t :
      horner(x, << secret >> \o coeffs, t.logs, t.exps, SplitBits))

\* what the holder of the shares ids sees of the byte secret when the
\* generator fills coeffs: the bytes of these shares at one position
View(ids, secret, coeffs) ==
    [i \in 1 .. Len(ids) |-> ShareByte(ids[i], secret, coeffs)]

\* every content fill_bytes can give to the threshold - 1 coefficients
CoeffChoices(threshold) == [1 .. threshold - 1 -> 0 .. Pow2(SplitBits) - 1]

\* thresholds, bytes split and ids of the threshold - 1 shares held
HeldBytes == {0, 1, 77, 255}
HeldIds ==
    {<< x >> : x \in 1 .. Pow2(SplitBits) - 1}
    \cup {<< 1, 2 >>, << 2, 1 >>, << 1, 255 >>, << 254, 255 >>, << 3, 7 >>,
          << 128, 64 >>}

\* the caller splits one byte and hands out fewer shares than the threshold
InitSecrecy ==
    /\ enc = [tag |-> "none"]
    /\ scanned = None
    /\ set = Absent
    /\ last = [op |-> "none", res |-> Ok(0)]
    /\ collected = 0
    /\ genuine = TRUE
    /\ \E ids \in HeldIds, b \in HeldBytes :
         probe = [tag |-> "split", threshold |-> Len(ids) + 1, ids |-> ids,
                  secret |-> b]

\* get_shares over every content of the coefficients: the number of contents
\* (draws) and the number of different views of the holder (views)
Observe ==
    /\ probe.tag = "split"
    /\ \E views \in {{View(probe.ids, probe.secret, c) :
                        c \in CoeffChoices(probe.threshold)}} :
         probe' = [tag |-> "observed", threshold |-> probe.threshold,
                   ids |-> probe.ids, secret |-> probe.secret,
                   draws |-> Cardinality(CoeffChoices(probe.threshold)),
                   views |-> Cardinality(views),
                   bytes |-> \A v \in views : \A i \in 1 .. Len(v) :
                               IsOk(v[i]) /\ v[i].val \in 0 .. 255]
    /\ UNCHANGED << enc, scanned, set, last, collected, genuine >>

NextSecrecy == Observe

SpecSecrecy == InitSecrecy /\ [][NextSecrecy]_vars

(***************************************************************************)
(* Arithmetic of GF(2^n) without tables, to state what horner and lagrange *)
(* compute: polynomials over GF(2) modulo the primitive polynomial of n.   *)
(***************************************************************************)
\* a times the field element 2
GfDouble(a, n) ==
    IF 2 * a >= Pow2(n) THEN Xor(2 * a, primitive_polynomial(n)) % Pow2(n)
    ELSE 2 * a

\* the product a * b, bit by bit of b
RECURSIVE GfMul(_, _, _)
GfMul(a, b, n) ==
    IF b = 0 THEN 0
    ELSE Xor(IF b % 2 = 1 THEN a ELSE 0, GfMul(GfDouble(a, n), b \div 2, n))

\* x to the power k
RECURSIVE GfPow(_, _, _)
GfPow(x, k, n) == IF k = 0 THEN 1 ELSE GfMul(x, GfPow(x, k - 1, n), n)

\* p(x) = c[1] + c[2] x + ... + c[t] x^(t-1), from term k on
RECURSIVE PolyFrom(_, _, _, _)
PolyFrom(k, c, x, n) ==
    IF k > Len(c) THEN 0
    ELSE Xor(GfMul(c[k], GfPow(x, k - 1, n), n), PolyFrom(k + 1, c, x, n))
PolyEval(c, x, n) == PolyFrom(1, c, x, n)

\* widths, coefficients and ids of the points given to lagrange
PointWidths == {MIN_BITS, SplitBits, 10}
PointCoeffs(n) == {0, 1, 5, Pow2(n) - 1}
PointIds(n) == IF n = MIN_BITS THEN 1 .. Pow2(n) - 1 ELSE {1, 2, 3, 254, 255}
Distinct(f) == \A i, j \in DOMAIN f : i # j => f[i] # f[j]

\* the caller holds a polynomial over GF(2^n) and m distinct ids
InitLagrange ==
    /\ enc = [tag |-> "none"]
    /\ scanned = None
    /\ set = Absent
    /\ last = [op |-> "none", res |-> Ok(0)]
    /\ collected = 0
    /\ genuine = TRUE
    /\ \E n \in PointWidths, m \in 1 .. MaxPoints :
         \E c \in [1 .. m -> PointCoeffs(n)] :
           \E x \in {f \in [1 .. m -> PointIds(n)] : Distinct(f)} :
             probe = [tag |-> "points", n |-> n, coeffs |-> c, x |-> x]

\* lagrange(x, y, logs, exps, n) on the values y of the polynomial at x; used
\* holds the indices into exps, one for each term with y[i] # 0
Interpolated ==
    /\ probe.tag = "points"
    /\ \E t \in {LogsAndExps(probe.n)} :
       \E y \in {[i \in 1 .. Len(probe.x) |->
                    PolyEval(probe.coeffs, probe.x[i], probe.n)]} :
         probe' = [tag |-> "interpolated", n |-> probe.n,
                   coeffs |-> probe.coeffs, x |-> probe.x, y |-> y,
                   res |-> lagrange(probe.x, y, t.logs, t.exps, probe.n),
                   used |-> {LagrangeInner(i - 1, 0, Unwrap(At(t.logs, y[i])),
                                           probe.x, t.logs, Pow2(probe.n)) :
                               i \in {k \in 1 .. Len(y) : y[k] # 0}}]
    /\ UNCHANGED << enc, scanned, set, last, collected, genuine >>

NextLagrange == Interpolated

SpecLagrange == InitLagrange /\ [][NextLagrange]_vars

\* coefficient bytes given to horner
HornerCoeffs == {0, 1, 77, 255}

\* the caller holds a share number x and the coefficients of a polynomial
InitHorner ==
    /\ enc = [tag |-> "none"]
    /\ scanned = None
    /\ set = Absent
    /\ last = [op |-> "none", res |-> Ok(0)]
    /\ collected = 0
    /\ genuine = TRUE
    /\ \E x \in 1 .. Pow2(SplitBits) - 1, t \in 1 .. MaxPoints :
         \E c \in [1 .. t -> HornerCoeffs] :
           probe = [tag |-> "poly", x |-> x, coeffs |-> c]

\* horner(x, coeffs, logs, exps, 8) as get_shares calls it
Evaluated ==
    /\ probe.tag = "poly"
    /\ \E t \in {LogsAndExps(SplitBits)} :
         probe' = [tag |-> "evaluated", x |-> probe.x, coeffs |-> probe.coeffs,
                   res |-> horner(probe.x, probe.coeffs, t.logs, t.exps,
                                  SplitBits)]
    /\ UNCHANGED << enc, scanned, set, last, collected, genuine >>

NextHorner == Evaluated

SpecHorner == InitHorner /\ [][NextHorner]_vars

\* ciphertexts given to share(): every length up to MaxCipher, filled with
\* one byte
CipherBytes == {0, 1, 128, 255}
Ciphertexts == {Repeat(b, len) : b \in CipherBytes, len \in 0 .. MaxCipher}

\* the content Share::new cuts out of a share string written by share()
ContentOf(d) ==
    Share_new([v |-> "1", t |-> "T1", r |-> 2, n |-> BASE64_encode(NonceA),
               d |-> d])

\* the caller holds a ciphertext and a number of shares
InitPad ==
    /\ enc = [tag |-> "none"]
    /\ scanned = None
    /\ set = Absent
    /\ last = [op |-> "none", res |-> Ok(0)]
    /\ collected = 0
    /\ genuine = TRUE
    /\ \E c \in Ciphertexts, total \in {2, 3} :
         probe = [tag |-> "cipher", c |-> c, total |-> total]

\* share(c, total, 2): left_pad, to_split and the shares returned, with the
\* content Share::new finds in each
Pad ==
    /\ probe.tag = "cipher"
    /\ \E res \in {share(probe.c, probe.total, 2, 1)} :
         probe' = [tag |-> "padded", c |-> probe.c, total |-> probe.total,
                   left_pad |-> LeftPad(Len(probe.c)),
                   to_split |-> ToSplit(probe.c),
                   res |-> res,
                   contents |-> IF IsOk(res)
                                THEN [k \in 1 .. Len(res.val) |-> ContentOf(res.val[k])]
                                ELSE << >>]
    /\ UNCHANGED << enc, scanned, set, last, collected, genuine >>

NextPad == Pad

SpecPad == InitPad /\ [][NextPad]_vars

\* Payloads written by hand, not by encrypt: bits 3 or 8, a nonce string
\* that is base64 of 24 bytes, base64 of 3 bytes or no base64, ids 1 and 2,
\* one or two bytes of content.
ShortNonce == BASE64_encode(<< 1, 2, 3 >>)
ForgedContents == UNION {[1 .. len -> {1, 5, 64}] : len \in 1 .. 2}
ForgedPayloads ==
    [v : {"1"}, t : {"T1"}, r : {2},
     n : {BASE64_encode(NonceA), ShortNonce, BadNonce},
     d : {construct_public_share_string(bits, id, c) :
            bits \in {MIN_BITS, SplitBits}, id \in {1, 2}, c \in ForgedContents}]

\* Share::new on a payload written by hand
ScanForged(w) ==
    /\ Alive
    /\ scanned = None
    /\ \E res \in {Share_new(w)} :
          /\ scanned' = IF IsOk(res)
                        THEN Some([share |-> res.val, mut |-> {"forged"}])
                        ELSE None
          /\ last' = [op |-> "scan", res |-> IF IsOk(res) THEN Ok(0) ELSE res]
    /\ UNCHANGED << enc, set, collected, genuine, probe >>

\* a ShareSet fed with payloads written by hand
NextForged ==
    \/ \E w \in ForgedPayloads : ScanForged(w)
    \/ SetInit
    \/ TryAddShare
    \/ \E passphrase \in Passphrases : Recover(passphrase)

SpecForged == Init /\ [][NextForged]_vars

(***************************************************************************)
(* Properties.                                                             *)
(***************************************************************************)
InProgress == set.state.tag = "SetInProgress"
Combined == set.state.tag = "SetCombined"
\* the step is a call of try_add_share / of recover_with_passphrase
AddStep == last'.op = "add"
RecoverStep == last'.op = "recover"
\* the ciphertext encrypt handed to the splitter
Ciphertext ==
    Aead_encrypt(scrypt(enc.in.pass, hash_string(enc.in.title)), NonceA,
                 enc.in.secret)

\* C1: round trip.  For 2 <= K <= N <= 255 encrypt returns N shares; a set
\* that took in K of them, in any order, is Combined and holds exactly the
\* ciphertext given to the splitter, and recover_with_passphrase with the
\* passphrase of encrypt then returns exactly the secret.
C1_RoundTrip ==
    (/\ enc.tag = "done"
     /\ 2 <= enc.in.required
     /\ enc.in.required <= enc.in.total
     /\ enc.in.total <= 255)
    => /\ IsOk(enc.res)
       /\ Len(enc.res.val) = enc.in.total
       /\ (genuine /\ collected >= enc.in.required)
          => (Combined /\ set.state.data = Ciphertext)
       /\ (/\ genuine
           /\ collected >= enc.in.required
           /\ last.op = "recover"
           /\ last.pass = enc.in.pass)
          => last.res = Ok(enc.in.secret)

\* a secret recovered from 3 of 3 shares whose ciphertext has a length with
\* (len + 1) mod 7 = 0
C1_Witness ==
    /\ last.op = "recover"
    /\ enc.in.required = 3
    /\ (Len(Ciphertext) + 1) % pad_length = 0
    /\ last.res = Ok(enc.in.secret)

\* C2: threshold.  While fewer than K shares were taken in (1 at init, 1 for
\* each try_add_share that returned Ok), the set is in progress and
\* next_action is MoreShares with have = that number and need = K.
C2_Threshold ==
    (set.state.tag # "Absent" /\ collected < set.required_shards)
    => /\ InProgress
       /\ next_action(set) = [tag  |-> "MoreShares", have |-> collected,
                              need |-> set.required_shards]

\* C3: eager combination.  A set in progress holds strictly fewer than K
\* shares, and next_action never reports MoreShares with have >= need.
C3_Eager ==
    InProgress
    => /\ Len(set.state.id_set) < set.required_shards
       /\ next_action(set).have < next_action(set).need

\* C4: a try_add_share that returns an error leaves the set as it was.
C4_FailedAddKeepsSet ==
    [][(AddStep /\ ~IsOk(last'.res)) => set' = set]_vars

\* the error try_add_share owes a share, from the order of checks the
\* specification gives: version, title, required_shards, nonce, bits, id
\* novelty, content length
Differs(self, new) ==
    << new.version # self.version,
       new.title # self.title,
       new.required_shards # self.required_shards,
       new.nonce # self.state.nonce,
       new.bits # self.state.bits,
       new.id \in {self.state.id_set[k] : k \in 1 .. Len(self.state.id_set)},
       Len(new.content) # self.state.content_length >>
AdmissionErrors ==
    << "ShareVersionDifferent", "ShareTitleDifferent",
       "ShareRequiredShardsDifferent", "ShareNonceDifferent",
       "ShareBitsDifferent", "ShareAlreadyInSet", "ShareContentLengthDifferent" >>
Agrees(self, new) == \A k \in 1 .. 5 : ~Differs(self, new)[k]

\* C5: duplicate rejection.  On a set in progress, try_add_share of a share
\* that agrees with the set on version, title, required_shards, nonce and
\* bits and whose id is already collected returns ShareAlreadyInSet and
\* leaves the set, and so have, as it was (so that the same call made again
\* meets the same set and gives the same answer).
C5_Duplicate ==
    [][(/\ AddStep
        /\ InProgress
        /\ Agrees(set, Unwrap(scanned).share)
        /\ Differs(set, Unwrap(scanned).share)[6])
       => /\ last'.res = Err("ShareAlreadyInSet", 0)
          /\ set' = set
          /\ next_action(set').have = next_action(set).have]_vars

\* a duplicate was refused by a set that holds 2 of the 3 shares it needs
C5_Witness ==
    /\ last.op = "add"
    /\ last.res = Err("ShareAlreadyInSet", 0)
    /\ InProgress
    /\ next_action(set) = [tag |-> "MoreShares", have |-> 2, need |-> 3]

\* C6: order of the admission checks.  On a set in progress, a share that
\* fails some check is refused with the error of the first check it fails,
\* in the order version, title, required_shards, nonce, bits, id novelty,
\* content length, and the set stays as it was.
C6_AdmissionOrder ==
    [][(AddStep /\ InProgress)
       => \A k \in 1 .. 7 :
            (/\ Differs(set, Unwrap(scanned).share)[k]
             /\ \A k2 \in 1 .. k - 1 : ~Differs(set, Unwrap(scanned).share)[k2])
            => (last'.res = Err(AdmissionErrors[k], 0) /\ set' = set)]_vars

\* a share that differs from the set in title and in bits was refused for
\* its title
C6_Witness ==
    /\ last.op = "add"
    /\ last.res = Err("ShareTitleDifferent", 0)
    /\ last.mut = {"bits"}
    /\ set.title = "T2"

\* C7: recover_with_passphrase on a set in progress returns NotReadyToDecode
\* and leaves the set as it was.
C7_NotReady ==
    [][(RecoverStep /\ InProgress)
       => (last'.res = Err("NotReadyToDecode", 0) /\ set' = set)]_vars

\* a set with a single share of the 2 it needs was asked for the secret
C7_Witness ==
    /\ last.op = "recover"
    /\ last.res = Err("NotReadyToDecode", 0)
    /\ next_action(set) = [tag |-> "MoreShares", have |-> 1, need |-> 2]

\* C8: Combined persists.  A call of recover_with_passphrase on a Combined
\* set leaves the set as it was, whatever it returns, no call makes a
\* Combined set anything else, and on a set combined from shares encrypt
\* returned the call with the passphrase of encrypt returns the secret,
\* whatever calls failed before.
C8_CombinedPersists ==
    [][Combined
       => /\ Combined'
          /\ RecoverStep
             => /\ set' = set
                /\ (genuine /\ last'.pass = enc.in.pass)
                   => last'.res = Ok(enc.in.secret)]_vars

\* the secret was returned right after a call that failed
C8_Witness ==
    /\ last.op = "recover"
    /\ last.failed
    /\ last.res = Ok(enc.in.secret)
    /\ Combined

\* C9: try_add_share on a Combined set returns Ok and leaves the set, and so
\* its ciphertext, its nonce and next_action, as they were, whatever the
\* share.
C9_CombinedNoOp ==
    [][(AddStep /\ Combined)
       => /\ last'.res = Ok(0)
          /\ set' = set
          /\ next_action(set') = [tag |-> "AskUserForPassword"]]_vars

\* a share with another title was handed to a set combined from the shares
\* encrypt returned (a set in progress would have refused it)
C9_Witness ==
    /\ last.op = "add"
    /\ last.mut = {"t"}
    /\ IsOk(last.res)
    /\ genuine
    /\ Combined

\* C10: field tables.  For every n looked at, logs and exps have 2^n
\* entries, logs[0] is None, and for x in 1 .. 2^n - 1: logs[x] is defined,
\* lies in 0 .. 2^n - 2, exps[logs[x]] = x, and logs[1] = 0.
C10_Tables ==
    probe.tag = "done"
    => /\ probe.len_logs = Pow2(probe.n)
       /\ probe.len_exps = Pow2(probe.n)
       /\ probe.x = 0 => IsNone(probe.log)
       /\ probe.x > 0
          => /\ IsSome(probe.log)
             /\ Unwrap(probe.log) \in 0 .. Pow2(probe.n) - 2
             /\ probe.exp = Some(probe.x)
       /\ probe.x = 1 => probe.log = Some(0)

\* the entry 1 of the tables of GF(2^10) was looked at
C10_Witness ==
    probe.tag = "done" /\ probe.n = 10 /\ probe.x = 1 /\ probe.log = Some(0)

\* C11: splitter parameter validation.  encrypt with N < 2 or N < K returns
\* TooFewShares, with N > 255 (and N >= K) TooManyShares, and for every (N, K)
\* with N >= 2, N >= K and N <= 255 it returns N shares.
C11_Validation ==
    enc.tag = "done"
    => /\ (enc.in.total < 2 \/ enc.in.total < enc.in.required)
          => enc.res = Err("TooFewShares", 0)
       /\ (/\ enc.in.total >= 2
           /\ enc.in.total >= enc.in.required
           /\ enc.in.total > 255)
          => enc.res = Err("TooManyShares", 255)
       /\ (/\ enc.in.total >= 2
           /\ enc.in.total >= enc.in.required
           /\ enc.in.total <= 255)
          => (IsOk(enc.res) /\ Len(enc.res.val) = enc.in.total)

\* C12: parsed shares are well-formed.  Every Share that Share::new returns
\* has bits in 3 .. 20, required_shards >= 2 and 1 <= id <= 2^bits - 1.
C12_WellFormed ==
    (last.op = "parse" /\ IsOk(last.res))
    => /\ last.res.val.bits \in MIN_BITS .. MAX_BITS
       /\ last.res.val.required_shards >= 2
       /\ last.res.val.id \in 1 .. Pow2(last.res.val.bits) - 1

\* the width written in the first character of d, and the body: what
\* follows that character, decoded as the version asks
WidthOf(w) == Unwrap(to_digit(w.d[1], 36))
BodyOf(w) == IF w.v = "1" THEN BASE64_decode(Tail(w.d)) ELSE hex_decode(Tail(w.d))
\* the payload parsed has a supported version, an unsigned r, a width digit
\* of BIT_RANGE and a body that its version decodes
Decodable(w) ==
    /\ w.v \in {"1", "null"}
    /\ w.r >= 0
    /\ Len(w.d) >= 1
    /\ IsSome(to_digit(w.d[1], 36))
    /\ WidthOf(w) \in MIN_BITS .. MAX_BITS
    /\ IsOk(BodyOf(w))
\* ceil(log_256(2^n - 1)) for n in 3 .. 20
ExpectedIdLength(n) == IF n <= 8 THEN 1 ELSE IF n <= 16 THEN 2 ELSE 3
\* the first len bytes read as a big-endian number
ExpectedId(bytes, len) ==
    IF len = 1 THEN bytes[1]
    ELSE IF len = 2 THEN (256 * bytes[1]) + bytes[2]
    ELSE (65536 * bytes[1]) + (256 * bytes[2]) + bytes[3]

\* C13: share body decoding.  For every bits n in 3 .. 20, Share::new on a
\* body of fewer than id_length bytes (1 for n <= 8, 2 for 9 <= n <= 16, 3
\* for n >= 17) fails with ShareTooShort; otherwise the id is the first
\* id_length bytes read big-endian and the content is the rest of the body.
C13_BodyDecoding ==
    (last.op = "parse" /\ Decodable(last.payload))
    => LET n     == WidthOf(last.payload)
           bytes == BodyOf(last.payload).val
           len   == ExpectedIdLength(n)
       IN  IF Len(bytes) < len THEN last.res = Err("ShareTooShort", 0)
           ELSE /\ IsOk(last.res)
                /\ last.res.val.bits = n
                /\ last.res.val.id = ExpectedId(bytes, len)
                /\ last.res.val.content = SubSeq(bytes, len + 1, Len(bytes))

\* a body of 4 bytes parsed with bits = 20: a 3-byte id and 1 byte of content
C13_Witness ==
    /\ last.op = "parse"
    /\ last.payload.v = "1"
    /\ last.payload.d = format_radix(20, 36) \o BASE64_encode(<< 1, 0, 255, 1 >>)
    /\ IsOk(last.res)
    /\ last.res.val.id = 65791
    /\ last.res.val.content = << 1 >>

\* C14: fewer than K shares reveal nothing.  For K - 1 distinct ids and a
\* split byte b, the K - 1 coefficients have 256^(K-1) contents and the
\* holder of the K - 1 shares has 256^(K-1) different views, all tuples of
\* bytes: every tuple of K - 1 share bytes comes from exactly one content of
\* the coefficients, whatever b is.
C14_Secrecy ==
    probe.tag = "observed"
    => /\ probe.draws = Pow2(8 * (probe.threshold - 1))
       /\ probe.views = Pow2(8 * (probe.threshold - 1))
       /\ probe.bytes

\* two shares of a byte split with threshold 3 were looked at
C14_Witness ==
    /\ probe.tag = "observed"
    /\ probe.threshold = 3
    /\ probe.ids = << 254, 255 >>
    /\ probe.secret = 77
    /\ probe.views = 65536

\* ids pairwise distinct, as many contents as ids (at least one), every
\* content of length content_length
Coherent(self) ==
    /\ \A i, j \in 1 .. Len(self.state.id_set) :
         i # j => self.state.id_set[i] # self.state.id_set[j]
    /\ Len(self.state.content_set) = Len(self.state.id_set)
    /\ Len(self.state.id_set) >= 1
    /\ \A k \in 1 .. Len(self.state.content_set) :
         Len(self.state.content_set[k]) = self.state.content_length
\* version, title, required_shards, nonce and bits of a set in progress
Header(self) ==
    << self.version, self.title, self.required_shards, self.state.nonce,
       self.state.bits >>

\* C15: coherent set.  Every set in progress has pairwise distinct ids, as
\* many contents as ids (at least one), all of length content_length; its
\* version, title, required_shards, nonce and bits are those of the share
\* given to ShareSet::init, and no try_add_share, failed or not, changes them.
C15_CoherentSet ==
    [][/\ InProgress' => Coherent(set')
       /\ last'.op = "init"
          => Header(set') = << Unwrap(scanned).share.version,
                               Unwrap(scanned).share.title,
                               Unwrap(scanned).share.required_shards,
                               Unwrap(scanned).share.nonce,
                               Unwrap(scanned).share.bits >>
       /\ (InProgress /\ InProgress') => Header(set') = Header(set)]_vars

\* a set in progress that holds 2 of the 3 shares it needs, after it refused
\* a share
C15_Witness ==
    /\ InProgress
    /\ last.op = "add"
    /\ ~IsOk(last.res)
    /\ Len(set.state.id_set) = 2
    /\ set.required_shards = 3

\* C16: lagrange returns p(0).  For a polynomial p of degree < m over
\* GF(2^n) and m distinct ids, lagrange on the values of p at the ids returns
\* Ok with the constant term of p, also when some values are 0; no
\* subtraction goes below zero (the call does not panic) and every index
\* used into exps is in 0 .. 2^n - 2.
C16_Lagrange ==
    probe.tag = "interpolated"
    => /\ probe.res = Ok(probe.coeffs[1])
       /\ \A u \in probe.used : IsOk(u) /\ u.val \in 0 .. Pow2(probe.n) - 2

\* three points over GF(2^8), one of them with the value 0, gave back the
\* constant term 255
C16_Witness ==
    /\ probe.tag = "interpolated"
    /\ probe.n = 8
    /\ Len(probe.x) = 3
    /\ \E i \in 1 .. 3 : probe.y[i] = 0
    /\ probe.coeffs[1] = 255
    /\ probe.coeffs[3] # 0
    /\ probe.res = Ok(255)

\* C17: horner is polynomial evaluation in GF(2^8).  For x in 1 .. 255 and
\* coefficients c[0 .. t-1], t >= 1, horner returns c[0] + c[1] x + ... +
\* c[t-1] x^(t-1) with XOR as addition and the product of the field; it does
\* not panic (no logarithm of 0 is taken) and the result is a byte.
C17_Horner ==
    probe.tag = "evaluated"
    => /\ probe.res = Ok(PolyEval(probe.coeffs, probe.x, SplitBits))
       /\ probe.res.val \in 0 .. 255

\* a polynomial whose leading coefficient is 0 was evaluated at 255: the
\* accumulator is 0 in the first two passes of the loop
C17_Witness ==
    /\ probe.tag = "evaluated"
    /\ probe.x = 255
    /\ probe.coeffs = << 77, 255, 0 >>
    /\ IsOk(probe.res)
    /\ probe.res.val # 77

\* the position, counted from 1 and most significant bit first, of the first
\* set bit of a sequence of bytes (0 when no bit is set)
FirstSetBit(bytes) ==
    LET bit(q) == BitOf(bytes[((q - 1) \div 8) + 1], 8, ((q - 1) % 8) + 1)
        set_bits == {q \in 1 .. 8 * Len(bytes) : bit(q) = 1}
    IN  IF set_bits = {} THEN 0
        ELSE CHOOSE q \in set_bits : \A q2 \in set_bits : q <= q2

\* C18: padding.  The padded input of the splitter is L zero bytes, one 0x01
\* byte, then the ciphertext c, with L = 7 - ((len(c) + 1) mod 7); L is in
\* 1 .. 7, the padded length is a multiple of 7, the first set bit of the
\* padded input is the lowest bit of the marker byte, and the content of
\* every share has the padded length.
C18_Padding ==
    probe.tag = "padded"
    => LET L == 7 - ((Len(probe.c) + 1) % 7)
       IN  /\ probe.left_pad = L
           /\ L \in 1 .. 7
           /\ probe.to_split = [k \in 1 .. L |-> 0] \o << 1 >> \o probe.c
           /\ Len(probe.to_split) = L + 1 + Len(probe.c)
           /\ Len(probe.to_split) % 7 = 0
           /\ FirstSetBit(probe.to_split) = 8 * (L + 1)
           /\ IsOk(probe.res)
           /\ Len(probe.contents) = probe.total
           /\ \A k \in 1 .. Len(probe.contents) :
                /\ IsOk(probe.contents[k])
                /\ Len(probe.contents[k].val.content) = Len(probe.to_split)

\* a ciphertext of 13 zero bytes was padded with 7 zero bytes and the marker
C18_Witness ==
    /\ probe.tag = "padded"
    /\ probe.c = [k \in 1 .. 13 |-> 0]
    /\ probe.left_pad = 7
    /\ Len(probe.to_split) = 21
    /\ probe.total = 3

\* the bits of a sequence of bytes, most significant first
BitsOfBytes(bytes) ==
    [q \in 1 .. 8 * Len(bytes) |->
       BitOf(bytes[((q - 1) \div 8) + 1], 8, ((q - 1) % 8) + 1)]
\* the set in progress once the share scanned is pushed
Pushed ==
    [set EXCEPT !.state.id_set = Append(@, Unwrap(scanned).share.id),
                !.state.content_set = Append(@, Unwrap(scanned).share.content)]

\* C19: combiner unpadding.  When try_add_share combines, the bit stream
\* holds bits bits for each position of the content, the bits left after
\* the leading zeros and the first 1 are cut are a multiple of 8, and the
\* bytes stored in Combined are exactly those bits.
C19_Unpadding ==
    [][(AddStep /\ InProgress /\ Combined')
       => LET stream == BitStream(Interpolate(Pushed.state), set.state.bits)
              rest   == CutMarker(stream)
          IN  /\ Len(stream) = set.state.content_length * set.state.bits
              /\ Len(rest) % 8 = 0
              /\ BitsOfBytes(set'.state.data) = rest]_vars

\* C20: nonce in Combined.  The nonce of a Combined set is the base64
\* decoding of the nonce string of the set in progress and has 24 bytes, so
\* that recover_with_passphrase on a Combined set returns a secret or an
\* error; with a nonce string that is no base64 the try_add_share that
\* combines fails, with NonceNotBase64 when the interpolation went through,
\* and the set stays in progress.
C20_Nonce ==
    [][/\ (InProgress /\ Combined')
          => /\ Ok(set'.state.nonce) = BASE64_decode(set.state.nonce)
             /\ Len(set'.state.nonce) = 24
       /\ (RecoverStep /\ Combined) => last'.res.kind \in {"Ok", "Err"}
       /\ (/\ AddStep
           /\ InProgress
           /\ IsOk(Admission(set, Unwrap(scanned).share))
           /\ Len(Pushed.state.id_set) >= set.required_shards
           /\ ~IsOk(BASE64_decode(set.state.nonce)))
          => /\ InProgress'
             /\ ~IsOk(last'.res)
             /\ (\A i \in 1 .. set.state.content_length :
                   IsOk(Interpolate(Pushed.state)[i]))
                => last'.res = Err("NonceNotBase64", 0)]_vars

====
